---- MODULE Spec2Model ----
(***************************************************************************)
(* A model of the Kaleidoscope front end of savcardamone/hls: the lexer    *)
(* (src/hls/lexer.hpp), the recursive-descent / operator-precedence parser *)
(* (src/hls/parser.hpp), the AST equality of src/hls/ast.hpp and the code  *)
(* generator of src/hls/ast_visitor.cpp; and of its Graph                  *)
(* (src/hls/graph.hpp) with the shortest-path visitor of                   *)
(* src/hls/graph_visitor.cpp.                                              *)
(*                                                                         *)
(* A std::string is a sequence of one-character strings; the input stream  *)
(* is the sequence of characters not read yet.                             *)
(***************************************************************************)
EXTENDS Integers, Sequences, FiniteSets, TLC

VARIABLES
  input,            \* the text the std::istream was built over
  src,              \* how the input was drawn: its family and abstract shape
  lexer_,           \* Parser::lexer_ : [last_char_, input_]
  current_token_,   \* Parser::current_token_
  pc,               \* where the caller of the parser is
  returned,         \* what Parser::step returned, call after call
  x, y,             \* two AST nodes handed to AST::operator==
  eq,               \* what operator== answered for them
  codegen,          \* the ASTCodegen visitor: its members, and what it wrote
  lowered,          \* the top-level nodes handed to the visitor so far
  graph,            \* the Graph: [vertices_, edges_]
  path,             \* the GraphShortestPath visitor, and the locals of dijkstra
  thrown            \* whether the last call on the Graph threw std::runtime_error

vars ==
  <<input, src, lexer_, current_token_, pc, returned, x, y, eq, codegen, lowered,
    graph, path, thrown>>

----------------------------------------------------------------------------
(* Characters and strings *)

EOF == "EOF"

Lower == {"a","b","c","d","e","f","g","h","i","j","k","l","m",
          "n","o","p","q","r","s","t","u","v","w","x","y","z"}

Digits == {"0","1","2","3","4","5","6","7","8","9"}

isspace(c) == c \in {" ", "\n", "\t", "\r"}

isalpha(c) == c \in Lower

isdigit(c) == c \in Digits

isalnumuscore(c) == isalpha(c) \/ isdigit(c) \/ c = "_"

DigitVal(c) ==
  CASE c = "0" -> 0 [] c = "1" -> 1 [] c = "2" -> 2 [] c = "3" -> 3
    [] c = "4" -> 4 [] c = "5" -> 5 [] c = "6" -> 6 [] c = "7" -> 7
    [] c = "8" -> 8 [] c = "9" -> 9

----------------------------------------------------------------------------
(* Tokens *)

Token(type, value) == [type |-> type, value |-> value]

TokNone == Token("tok_none", <<>>)

----------------------------------------------------------------------------
(* Lexer *)

\* Lexer::Lexer : last_char_ = ' ', nothing read yet
Lexer(text) == [last_char_ |-> " ", input_ |-> text]

\* last_char_ = input_.get()
Get(L) ==
  IF L.input_ = <<>>
    THEN [last_char_ |-> EOF, input_ |-> <<>>]
    ELSE [last_char_ |-> Head(L.input_), input_ |-> Tail(L.input_)]

\* while (isspace(last_char_)) last_char_ = input_.get()
RECURSIVE SkipSpace(_)
SkipSpace(L) == IF isspace(L.last_char_) THEN SkipSpace(Get(L)) ELSE L

\* while (isalnumuscore(last_char_ = input_.get())) identifier_string += last_char_
\* (L: the lexer after the get)
RECURSIVE ReadIdentifier(_, _)
ReadIdentifier(L, str) ==
  IF isalnumuscore(L.last_char_)
    THEN ReadIdentifier(Get(L), Append(str, L.last_char_))
    ELSE [str |-> str, lexer |-> L]

\* do { numerical_string += last_char_; last_char_ = get } while (digit or '.')
\* (L: the lexer after the get)
RECURSIVE ReadNumber(_, _)
ReadNumber(L, str) ==
  IF isdigit(L.last_char_) \/ L.last_char_ = "."
    THEN ReadNumber(Get(L), Append(str, L.last_char_))
    ELSE [str |-> str, lexer |-> L]

\* SkipComment that ends a comment at '\n' and EOF only, not at '\r'
RECURSIVE SkipCommentToNewline(_)
SkipCommentToNewline(L) ==
  IF L.last_char_ # EOF /\ L.last_char_ # "\n"
    THEN SkipCommentToNewline(Get(L))
    ELSE L

\* do { last_char_ = get } while (last_char_ != EOF, '\n', '\r')
\* (L: the lexer after the get)
RECURSIVE SkipComment(_)
SkipComment(L) ==
  IF L.last_char_ # EOF /\ L.last_char_ # "\n" /\ L.last_char_ # "\r"
    THEN SkipComment(Get(L))
    ELSE L

\* "def" and "extern" are keywords, any other word an identifier
Keyword(r) ==
  [tok |-> IF r.str = <<"d","e","f">> THEN Token("tok_def", <<>>)
           ELSE IF r.str = <<"e","x","t","e","r","n">> THEN Token("tok_extern", <<>>)
           ELSE Token("tok_identifier", r.str),
   lexer |-> r.lexer]

Number(r) == [tok |-> Token("tok_number", r.str), lexer |-> r.lexer]

\* EofOrOperator without the test for the end of the input: the EOF character
\* is handed out as an operator like any other
EofOrOperatorUnchecked(L) ==
  [tok |-> Token("tok_operator", <<L.last_char_>>), lexer |-> Get(L)]

\* the end of get_token: EOF, or a one-character operator
EofOrOperator(L) ==
  IF L.last_char_ = EOF THEN [tok |-> Token("tok_eof", <<>>), lexer |-> L]
  ELSE [tok |-> Token("tok_operator", <<L.last_char_>>), lexer |-> Get(L)]

RECURSIVE get_token(_)
RECURSIVE Lex(_)

\* after a comment: lex on unless the comment ended the input
AfterComment(L) == IF L.last_char_ # EOF THEN get_token(L) ELSE EofOrOperator(L)

\* Lexer::get_token after its whitespace loop
Lex(L) ==
  IF isalpha(L.last_char_) THEN Keyword(ReadIdentifier(Get(L), <<L.last_char_>>))
  ELSE IF isdigit(L.last_char_) \/ L.last_char_ = "."
    THEN Number(ReadNumber(Get(L), <<L.last_char_>>))
  ELSE IF L.last_char_ = "#" THEN AfterComment(SkipComment(Get(L)))
  ELSE EofOrOperator(L)

\* Lexer::get_token : [tok, lexer]
get_token(L) == Lex(SkipSpace(L))

----------------------------------------------------------------------------
(* AST nodes (src/hls/ast.hpp) *)

Null == [kind |-> "nullptr"]

\* what a call leaves behind when an exception leaves it instead of a value
Exception == [kind |-> "exception"]

NumberExprAST(val) == [kind |-> "NumberExprAST", val |-> val]

VariableExprAST(name) == [kind |-> "VariableExprAST", name |-> name]

BinaryExprAST(op, lhs, rhs) ==
  [kind |-> "BinaryExprAST", op |-> op, lhs |-> lhs, rhs |-> rhs]

CallExprAST(callee, args) ==
  [kind |-> "CallExprAST", callee |-> callee, args |-> args]

PrototypeAST(name, args) == [kind |-> "PrototypeAST", name |-> name, args |-> args]

FunctionAST(proto, body) == [kind |-> "FunctionAST", proto |-> proto, body |-> body]

----------------------------------------------------------------------------
(* std::stof on the text of a Number token (digits and points only) *)

RECURSIVE TakeDigits(_)
TakeDigits(s) ==
  IF s # <<>> /\ isdigit(Head(s)) THEN <<Head(s)>> \o TakeDigits(Tail(s)) ELSE <<>>

RECURSIVE NatOf(_)
NatOf(ds) ==
  IF ds = <<>> THEN 0 ELSE 10 * NatOf(SubSeq(ds, 1, Len(ds) - 1)) + DigitVal(ds[Len(ds)])

RECURSIVE StripZeros(_)
StripZeros(ds) ==
  IF ds # <<>> /\ ds[Len(ds)] = "0" THEN StripZeros(SubSeq(ds, 1, Len(ds) - 1)) ELSE ds

\* the decimal m / 10^e, e minimal
Decimal(m, e) == [m |-> m, e |-> e]

\* stof converts the longest prefix that is a decimal number: digits, at most one
\* point, digits, with a digit somewhere. Without one it throws
\* std::invalid_argument. (std::out_of_range needs about forty digits.)
stof(s) ==
  LET ip   == TakeDigits(s)
      rest == SubSeq(s, Len(ip) + 1, Len(s))
      fp   == IF rest # <<>> /\ Head(rest) = "." THEN TakeDigits(Tail(rest)) ELSE <<>>
      fr   == StripZeros(fp)
  IN IF ip = <<>> /\ fp = <<>>
       THEN [ok |-> FALSE, val |-> Decimal(0, 0)]
       ELSE [ok |-> TRUE, val |-> Decimal(NatOf(ip \o fr), Len(fr))]

----------------------------------------------------------------------------
(* Parser (src/hls/parser.hpp). A parser state p is                        *)
(* [current_token_, lexer_]; every parse function returns [ast, p]: the    *)
(* node (Null for a null pointer, Exception when a throw left it) and the  *)
(* state it leaves the parser in. What follows a call in the code is an    *)
(* operator of its own that takes the call's result.                       *)

Ret(ast, p) == [ast |-> ast, p |-> p]

Threw(r) == r.ast = Exception

\* current_token_ = lexer_.get_token()
TokenRead(r) == [current_token_ |-> r.tok, lexer_ |-> r.lexer]

\* Parser::next_token
next_token(p) == TokenRead(get_token(p.lexer_))

\* Parser::Parser : prime the token stream
Parser(lexer) == next_token([current_token_ |-> TokNone, lexer_ |-> lexer])

\* binop_precedence_[value]; operator[] answers 0 for a key it does not hold
binop_precedence_(value) ==
  CASE value = <<"<">> -> 10
    [] value = <<"+">> -> 20
    [] value = <<"-">> -> 20
    [] value = <<"*">> -> 40
    [] OTHER -> 0

\* get_token_precedence without the test for 0: an operator the table does not
\* hold gets the precedence 0 that operator[] answers for it
get_token_precedence_zero(p) ==
  IF p.current_token_.type # "tok_operator" THEN -1
  ELSE binop_precedence_(p.current_token_.value)

\* Parser::get_token_precedence
get_token_precedence(p) ==
  IF p.current_token_.type # "tok_operator" THEN -1
  ELSE IF binop_precedence_(p.current_token_.value) > 0
         THEN binop_precedence_(p.current_token_.value)
         ELSE -1

\* make_unique<NumberExprAST>(std::stof(...)); next_token()
NumberOf(f, p) ==
  IF ~f.ok THEN Ret(Exception, p)
  ELSE Ret(NumberExprAST(f.val), next_token(p))

\* Parser::parse_number_expr
parse_number_expr(p) == NumberOf(stof(p.current_token_.value), p)

RECURSIVE parse_primary(_)
RECURSIVE parse_expression(_)
RECURSIVE parse_binop_rhs(_, _, _)
RECURSIVE parse_parentheses_expr(_)
RECURSIVE parse_identifier_expr(_)
RECURSIVE parse_call_args(_, _)

\* CloseParen without its test for ")"
CloseParenUnchecked(r) ==
  IF Threw(r) THEN r
  ELSE IF r.ast = Null THEN Ret(Null, r.p)
  ELSE Ret(r.ast, next_token(r.p))

\* parse_parentheses_expr after its parse_expression
CloseParen(r) ==
  IF Threw(r) THEN r
  ELSE IF r.ast = Null THEN Ret(Null, r.p)
  ELSE IF r.p.current_token_.value # <<")">> THEN Ret(Null, r.p)
  ELSE Ret(r.ast, next_token(r.p))

\* Parser::parse_parentheses_expr
parse_parentheses_expr(p) == CloseParen(parse_expression(next_token(p)))

\* NextArg that takes the next argument with or without a comma before it
NextArgAnySeparator(r, args) ==
  IF Threw(r) THEN [ok |-> FALSE, threw |-> TRUE, args |-> args, p |-> r.p]
  ELSE IF r.ast = Null THEN [ok |-> FALSE, threw |-> FALSE, args |-> args, p |-> r.p]
  ELSE IF r.p.current_token_.value = <<")">>
    THEN [ok |-> TRUE, threw |-> FALSE, args |-> Append(args, r.ast), p |-> r.p]
  ELSE IF r.p.current_token_.value # <<",">>
    THEN parse_call_args(r.p, Append(args, r.ast))
  ELSE parse_call_args(next_token(r.p), Append(args, r.ast))

\* one turn of the while (1) of parse_identifier_expr, after its parse_expression
NextArg(r, args) ==
  IF Threw(r) THEN [ok |-> FALSE, threw |-> TRUE, args |-> args, p |-> r.p]
  ELSE IF r.ast = Null THEN [ok |-> FALSE, threw |-> FALSE, args |-> args, p |-> r.p]
  ELSE IF r.p.current_token_.value = <<")">>
    THEN [ok |-> TRUE, threw |-> FALSE, args |-> Append(args, r.ast), p |-> r.p]
  ELSE IF r.p.current_token_.value # <<",">>
    THEN [ok |-> FALSE, threw |-> FALSE, args |-> Append(args, r.ast), p |-> r.p]
  ELSE parse_call_args(next_token(r.p), Append(args, r.ast))

\* the while (1) of parse_identifier_expr: [ok, threw, args, p]
parse_call_args(p, args) == NextArg(parse_expression(p), args)

\* the end of parse_identifier_expr: eat the ")" and return the call
CallOf(name, a) ==
  IF a.threw THEN Ret(Exception, a.p)
  ELSE IF ~a.ok THEN Ret(Null, a.p)
  ELSE Ret(CallExprAST(name, a.args), next_token(a.p))

\* parse_identifier_expr after the "(" of a call
CallArgs(name, p) ==
  IF p.current_token_.value = <<")">>
    THEN Ret(CallExprAST(name, <<>>), next_token(p))
    ELSE CallOf(name, parse_call_args(p, <<>>))

\* parse_identifier_expr after the identifier
VariableOrCall(name, p) ==
  IF p.current_token_.value # <<"(">> THEN Ret(VariableExprAST(name), p)
  ELSE CallArgs(name, next_token(p))

\* Parser::parse_identifier_expr
parse_identifier_expr(p) == VariableOrCall(p.current_token_.value, next_token(p))

\* Parser::parse_primary
parse_primary(p) ==
  CASE p.current_token_.type = "tok_identifier" -> parse_identifier_expr(p)
    [] p.current_token_.type = "tok_number" -> parse_number_expr(p)
    [] p.current_token_.type = "tok_operator" ->
         IF p.current_token_.value = <<"(">> THEN parse_parentheses_expr(p)
         ELSE Ret(Null, p)
    [] OTHER -> Ret(Null, p)

\* Recurse with > for <: a tighter operator after the right-hand side no longer
\* takes it, so a + b * c would group as (a + b) * c
RecurseOnLooser(token_precedence, next_precedence) == token_precedence > next_precedence

\* the look-ahead of parse_binop_rhs: the operator after the right-hand side
\* binds tighter than the one just eaten
Recurse(token_precedence, next_precedence) == token_precedence < next_precedence

\* lhs = make_unique<BinaryExprAST>(*binop.value().c_str(), lhs, rhs), and around
FoldBinop(expr_precedence, lhs, binop, rhs) ==
  IF Threw(rhs) THEN rhs
  ELSE IF rhs.ast = Null THEN Ret(Null, rhs.p)
  ELSE parse_binop_rhs(expr_precedence,
                       BinaryExprAST(Head(binop.value), lhs, rhs.ast), rhs.p)

\* parse_binop_rhs after the primary on the right of the operator
BinopRhs(expr_precedence, lhs, binop, token_precedence, r) ==
  IF Threw(r) THEN r
  ELSE IF r.ast = Null THEN Ret(Null, r.p)
  ELSE FoldBinop(expr_precedence, lhs, binop,
                 IF Recurse(token_precedence, get_token_precedence(r.p))
                   THEN parse_binop_rhs(token_precedence + 1, r.ast, r.p)
                   ELSE r)

\* one turn of the while (1) of parse_binop_rhs
BinopTurn(expr_precedence, lhs, p, token_precedence) ==
  IF token_precedence < expr_precedence THEN Ret(lhs, p)
  ELSE BinopRhs(expr_precedence, lhs, p.current_token_, token_precedence,
                parse_primary(next_token(p)))

\* Parser::parse_binop_rhs
parse_binop_rhs(expr_precedence, lhs, p) ==
  BinopTurn(expr_precedence, lhs, p, get_token_precedence(p))

\* parse_expression after its parse_primary
ExpressionOf(lhs) ==
  IF Threw(lhs) THEN lhs
  ELSE IF lhs.ast = Null THEN Ret(Null, lhs.p)
  ELSE parse_binop_rhs(0, lhs.ast, lhs.p)

\* Parser::parse_expression
parse_expression(p) == ExpressionOf(parse_primary(p))

\* parse_prototype_args that also steps over commas
RECURSIVE parse_prototype_args_commas(_, _)
parse_prototype_args_commas(p, arg_names) ==
  IF p.current_token_.type = "tok_identifier"
    THEN parse_prototype_args_commas(next_token(p), Append(arg_names, p.current_token_.value))
  ELSE IF p.current_token_.value = <<",">>
    THEN parse_prototype_args_commas(next_token(p), arg_names)
  ELSE [arg_names |-> arg_names, p |-> p]

\* while (next_token().type() == tok_identifier) arg_names.push_back(value)
\* (p: the parser after the next_token)
RECURSIVE parse_prototype_args(_, _)
parse_prototype_args(p, arg_names) ==
  IF p.current_token_.type = "tok_identifier"
    THEN parse_prototype_args(next_token(p), Append(arg_names, p.current_token_.value))
    ELSE [arg_names |-> arg_names, p |-> p]

\* the end of parse_prototype: the ")" and the node
PrototypeOf(function_name, a) ==
  IF a.p.current_token_.value # <<")">> THEN Ret(Null, a.p)
  ELSE Ret(PrototypeAST(function_name, a.arg_names), next_token(a.p))

\* parse_prototype after the function name
PrototypeArgs(function_name, p) ==
  IF p.current_token_.value # <<"(">> THEN Ret(Null, p)
  ELSE PrototypeOf(function_name, parse_prototype_args(next_token(p), <<>>))

\* Parser::parse_prototype
parse_prototype(p) ==
  IF p.current_token_.type # "tok_identifier" THEN Ret(Null, p)
  ELSE PrototypeArgs(p.current_token_.value, next_token(p))

\* the end of parse_definition: the function node, if there is a body
FunctionOf(proto, expr) ==
  IF Threw(expr) THEN expr
  ELSE IF expr.ast = Null THEN Ret(Null, expr.p)
  ELSE Ret(FunctionAST(proto, expr.ast), expr.p)

\* parse_definition after its parse_prototype
DefinitionBody(proto) ==
  IF proto.ast = Null THEN proto
  ELSE FunctionOf(proto.ast, parse_expression(proto.p))

\* Parser::parse_definition
parse_definition(p) == DefinitionBody(parse_prototype(next_token(p)))

\* Parser::parse_extern
parse_extern(p) == parse_prototype(next_token(p))

\* parse_top_level that names its prototype
parse_top_level_named(p) ==
  FunctionOf(PrototypeAST(<<"m", "a", "i", "n">>, <<>>), parse_expression(p))

\* Parser::parse_top_level
parse_top_level(p) == FunctionOf(PrototypeAST(<<>>, <<>>), parse_expression(p))

\* handle_extern, handle_definition, handle_top_level: on a null result, skip
\* one token and return nullptr
Handle(r) ==
  IF Threw(r) THEN r
  ELSE IF r.ast = Null THEN Ret(Null, next_token(r.p))
  ELSE r

handle_extern(p) == Handle(parse_extern(p))

handle_definition(p) == Handle(parse_definition(p))

handle_top_level(p) == Handle(parse_top_level(p))

\* Parser::step
step(p) ==
  CASE p.current_token_.type = "tok_eof" -> Ret(Null, p)
    [] p.current_token_.type = "tok_def" -> handle_definition(p)
    [] p.current_token_.type = "tok_extern" -> handle_extern(p)
    [] p.current_token_.type = "tok_operator" /\ p.current_token_.value = <<";">> ->
         Ret(Null, next_token(p))
    [] OTHER -> handle_top_level(p)

----------------------------------------------------------------------------
(* Bounds *)

MaxOps == 3       \* operators in a chain of primaries
MaxArgs == 2      \* arguments of a call
MaxParams == 2    \* parameters of a prototype
MaxForms == 2     \* top-level forms in one input
MaxChars == 3     \* characters of a raw input
MaxSteps == 3     \* calls of Parser::step by the caller

----------------------------------------------------------------------------
(* Source texts. An expression is drawn as a chain [prims, ops] of         *)
(* primaries joined by operators and written out token by token; Tree is   *)
(* the tree the grammar gives it, by the textbook rule: split at the last  *)
(* operator of lowest precedence.                                          *)

Var(name) == [k |-> "var", name |-> name]

Num(text, val) == [k |-> "num", text |-> text, val |-> val]

Paren(e) == [k |-> "paren", e |-> e]

Call(name, args) == [k |-> "call", name |-> name, args |-> args]

Chain(prims, ops) == [prims |-> prims, ops |-> ops]

Single(prim) == Chain(<<prim>>, <<>>)

StdPrec(op) == CASE op = "<" -> 10 [] op = "+" -> 20 [] op = "-" -> 20 [] op = "*" -> 40

Ops == {"<", "+", "-", "*"}

RECURSIVE Flatten(_)
Flatten(ss) == IF ss = <<>> THEN <<>> ELSE Head(ss) \o Flatten(Tail(ss))

RECURSIVE ExprToks(_)
RECURSIVE PrimToks(_)
RECURSIVE ArgToks(_, _)

\* the argument lists of a call, sep between two arguments (<<>>: nothing)
ArgToks(args, sep) ==
  IF args = <<>> THEN <<>>
  ELSE IF Len(args) = 1 THEN ExprToks(args[1])
  ELSE ExprToks(args[1]) \o sep \o ArgToks(Tail(args), sep)

PrimToks(prim) ==
  CASE prim.k = "var" -> <<prim.name>>
    [] prim.k = "num" -> <<prim.text>>
    [] prim.k = "paren" -> <<<<"(">>>> \o ExprToks(prim.e) \o <<<<")">>>>
    [] prim.k = "call" ->
         <<prim.name, <<"(">>>> \o ArgToks(prim.args, <<<<",">>>>) \o <<<<")">>>>

ExprToks(e) ==
  PrimToks(e.prims[1]) \o
  Flatten([i \in 1..Len(e.ops) |-> <<<<e.ops[i]>>>> \o PrimToks(e.prims[i + 1])])

\* the tokens, one blank between two of them
RECURSIVE Text(_)
Text(toks) ==
  IF toks = <<>> THEN <<>>
  ELSE IF Len(toks) = 1 THEN toks[1]
  ELSE toks[1] \o <<" ">> \o Text(Tail(toks))

\* the last operator of lowest precedence
SplitAt(ops) ==
  CHOOSE k \in 1..Len(ops) :
    /\ \A i \in 1..Len(ops) : StdPrec(ops[k]) <= StdPrec(ops[i])
    /\ \A i \in (k + 1)..Len(ops) : StdPrec(ops[k]) < StdPrec(ops[i])

RECURSIVE Grouped(_, _)
Grouped(trees, ops) ==
  IF ops = <<>> THEN trees[1]
  ELSE LET k == SplitAt(ops) IN
       BinaryExprAST(ops[k],
                     Grouped(SubSeq(trees, 1, k), SubSeq(ops, 1, k - 1)),
                     Grouped(SubSeq(trees, k + 1, Len(trees)),
                             SubSeq(ops, k + 1, Len(ops))))

RECURSIVE Tree(_)
RECURSIVE PrimTree(_)
PrimTree(prim) ==
  CASE prim.k = "var" -> VariableExprAST(prim.name)
    [] prim.k = "num" -> NumberExprAST(prim.val)
    [] prim.k = "paren" -> Tree(prim.e)
    [] prim.k = "call" ->
         CallExprAST(prim.name, [i \in 1..Len(prim.args) |-> Tree(prim.args[i])])

Tree(e) == Grouped([i \in 1..Len(e.prims) |-> PrimTree(e.prims[i])], e.ops)

\* top-level forms
Proto(name, params) == [name |-> name, params |-> params]

ExternForm(proto) == [form |-> "extern", proto |-> proto]

DefForm(proto, body) == [form |-> "def", proto |-> proto, body |-> body]

TopForm(body) == [form |-> "top", body |-> body]

ProtoToks(proto) == <<proto.name, <<"(">>>> \o [i \in 1..Len(proto.params) |-> proto.params[i]] \o <<<<")">>>>

FormToks(f) ==
  CASE f.form = "extern" -> <<<<"e","x","t","e","r","n">>>> \o ProtoToks(f.proto)
    [] f.form = "def" -> <<<<"d","e","f">>>> \o ProtoToks(f.proto) \o ExprToks(f.body)
    [] f.form = "top" -> ExprToks(f.body)

ProtoTree(proto) == PrototypeAST(proto.name, proto.params)

FormTree(f) ==
  CASE f.form = "extern" -> ProtoTree(f.proto)
    [] f.form = "def" -> FunctionAST(ProtoTree(f.proto), Tree(f.body))
    [] f.form = "top" -> FunctionAST(PrototypeAST(<<>>, <<>>), Tree(f.body))

SeqsUpTo(S, n) == UNION {[1..k -> S] : k \in 0..n}

----------------------------------------------------------------------------
(* The inputs the parser is run on, family by family *)

Prims == << Var(<<"a">>), Var(<<"b">>), Num(<<"2">>, Decimal(2, 0)), Var(<<"c">>),
            Num(<<"1", ".", "5">>, Decimal(15, 1)), Var(<<"d">>) >>

PrimAt(i) == Prims[((i - 1) % Len(Prims)) + 1]

\* chains of plain primaries: every choice of up to MaxOps operators
ChainSrc ==
  { [family |-> "chain", e |-> Chain([i \in 1..(Len(ops) + 1) |-> PrimAt(i)], ops)] :
      ops \in SeqsUpTo(Ops, MaxOps) }

Inner ==
  { Single(Var(<<"x">>)),
    Chain(<<Var(<<"x">>), Var(<<"y">>)>>, <<"+">>),
    Chain(<<Var(<<"y">>), Var(<<"x">>), Num(<<"0", "7">>, Decimal(7, 0))>>, <<"+", "*">>),
    Chain(<<Var(<<"y">>), Paren(Chain(<<Var(<<"x">>), Num(<<"2", ".">>, Decimal(2, 0))>>, <<"<">>))>>,
          <<"*">>) }

Calls == { Call(<<"f">>, args) : args \in SeqsUpTo(Inner, MaxArgs) }

\* one compound primary, alone or joined to a second primary
NestedSrc ==
  LET P1 == {Paren(e) : e \in Inner} \cup Calls
      P2 == {Var(<<"c">>)} \cup {Paren(e) : e \in Inner}
  IN { [family |-> "nested", e |-> Single(p)] : p \in P1 }
     \cup { [family |-> "nested", e |-> Chain(<<p, q>>, <<op>>)] :
              p \in P1, q \in P2, op \in {"+", "*"} }
     \cup { [family |-> "nested", e |-> Chain(<<q, p>>, <<op>>)] :
              p \in Calls, q \in {Var(<<"c">>)}, op \in {"-"} }

\* "(" e and then something that is not ")"
Follows == { <<>>, <<<<";">>>>, <<<<",">>>>, <<<<"z">>>>, <<<<"1">>>>, <<<<"d", "e", "f">>>> }

BadParenSrc == { [family |-> "badparen", e |-> e, follow |-> fw] : e \in Inner, fw \in Follows }

\* a call whose arguments no comma separates
BadCallSrc ==
  { [family |-> "badcall", call |-> c] : c \in {c \in Calls : Len(c.args) >= 2} }

Protos ==
  { Proto(n, ps) : n \in {<<"f">>, <<"m", "y", "_", "f">>},
                   ps \in SeqsUpTo({<<"a">>, <<"b">>}, MaxParams) }

Forms ==
  { ExternForm(pr) : pr \in Protos }
  \cup { DefForm(pr, b) : pr \in Protos, b \in Inner }
  \cup { TopForm(b) : b \in Inner }

FormSrc == { [family |-> "form", f |-> f] : f \in Forms }

\* a prototype with a token that is neither an identifier nor ")" among its
\* parameters, after the first `at` of them
Junk == { <<",">>, <<"1">>, <<"+">>, <<"d", "e", "f">>, <<"(">>, <<";">> }

BadProtoSrc ==
  { [family |-> "badproto", kw |-> kw, proto |-> pr, at |-> at, junk |-> j] :
      kw \in {"extern", "def"}, pr \in Protos, at \in 0..MaxParams, j \in Junk }

BadProtoToks(s) ==
  LET ps == s.proto.params
      at == IF s.at > Len(ps) THEN Len(ps) ELSE s.at
      kw == IF s.kw = "def" THEN <<"d", "e", "f">> ELSE <<"e", "x", "t", "e", "r", "n">>
  IN <<kw, s.proto.name, <<"(">>>> \o SubSeq(ps, 1, at) \o <<s.junk>>
       \o SubSeq(ps, at + 1, Len(ps)) \o <<<<")">>>>
       \o (IF s.kw = "def" THEN <<<<"x">>>> ELSE <<>>)

\* well-formed forms put one after the other
SeqForms ==
  { TopForm(Single(Var(<<"x">>))),
    TopForm(Chain(<<Var(<<"x">>), Var(<<"y">>)>>, <<"+">>)),
    ExternForm(Proto(<<"f">>, <<<<"a">>>>)),
    DefForm(Proto(<<"g">>, <<<<"a">>, <<"b">>>>), Chain(<<Var(<<"a">>), Var(<<"b">>)>>, <<"*">>)) }

\* seps[i]: whether a ";" stands between form i and form i + 1
SeqSrc ==
  { [family |-> "seq", forms |-> fs, seps |-> sp] :
      fs \in (SeqsUpTo(SeqForms, MaxForms) \ {<<>>}),
      sp \in SeqsUpTo(BOOLEAN, MaxForms) }

SeqOk(s) == s.family = "seq" => Len(s.seps) = Len(s.forms) - 1

RECURSIVE SeqToks(_, _)
SeqToks(fs, sp) ==
  IF Len(fs) = 1 THEN FormToks(fs[1])
  ELSE FormToks(fs[1]) \o (IF sp[1] THEN <<<<";">>>> ELSE <<>>) \o SeqToks(Tail(fs), Tail(sp))

\* ";" and then a form, or nothing
SepSrc ==
  { [family |-> "sep", rest |-> r] : r \in {<<>>} \cup {<<f>> : f \in SeqForms} }

\* malformed forms: token lists no top-level form matches
BadForms ==
  { <<<<"(">>>>,
    <<<<"(">>, <<"x">>>>,
    <<<<"+">>>>,
    <<<<")">>>>,
    <<<<"d", "e", "f">>, <<"(">>>>,
    <<<<"d", "e", "f">>, <<"f">>, <<"(">>, <<"a">>, <<",">>, <<"b">>, <<")">>, <<"a">>>>,
    <<<<"e", "x", "t", "e", "r", "n">>, <<"1">>>>,
    <<<<"f">>, <<"(">>, <<"x">>, <<"y">>, <<")">>>>,
    <<<<"x">>, <<"+">>>> }

RecoverSrc ==
  { [family |-> "recover", bad |-> b, good |-> g] : b \in BadForms, g \in SeqForms }

\* a chain, then an operator the precedence table does not hold, then a primary
OtherOps == { ")", ",", ";", "/", "=" }

TrailSrc ==
  { [family |-> "trail", e |-> Chain([i \in 1..(Len(ops) + 1) |-> PrimAt(i)], ops), op |-> o] :
      ops \in SeqsUpTo(Ops, MaxOps - 1), o \in OtherOps }

RawChars == { ".", "1", "a", "(", "+", " " }

RawSrc == { [family |-> "raw", text |-> t] : t \in SeqsUpTo(RawChars, MaxChars) }

InputOf(s) ==
  CASE s.family = "chain" -> Text(ExprToks(s.e))
    [] s.family = "nested" -> Text(ExprToks(s.e))
    [] s.family = "badparen" -> Text(<<<<"(">>>> \o ExprToks(s.e) \o s.follow)
    [] s.family = "trail" -> Text(ExprToks(s.e) \o <<<<s.op>>, <<"z">>>>)
    [] s.family = "badcall" ->
         Text(<<s.call.name, <<"(">>>> \o ArgToks(s.call.args, <<>>) \o <<<<")">>>>)
    [] s.family = "form" -> Text(FormToks(s.f))
    [] s.family = "badproto" -> Text(BadProtoToks(s))
    [] s.family = "seq" -> Text(SeqToks(s.forms, s.seps))
    [] s.family = "sep" ->
         Text(<<<<";">>>> \o (IF s.rest = <<>> THEN <<>> ELSE FormToks(s.rest[1])))
    [] s.family = "recover" -> Text(s.bad \o <<<<";">>>> \o FormToks(s.good))
    [] s.family = "raw" -> s.text

Sources ==
  ChainSrc \cup NestedSrc \cup BadParenSrc \cup BadCallSrc \cup FormSrc
    \cup BadProtoSrc \cup {s \in SeqSrc : SeqOk(s)} \cup SepSrc \cup RecoverSrc \cup RawSrc
    \cup TrailSrc

----------------------------------------------------------------------------
(* The parser as its caller sees it *)

P == [current_token_ |-> current_token_, lexer_ |-> lexer_]

Constructed(p) ==
  /\ lexer_ = p.lexer_
  /\ current_token_ = p.current_token_

\* a Lexer over the input, and a Parser constructed over it
Init ==
  /\ src \in Sources
  /\ input = InputOf(src)
  /\ Constructed(Parser(Lexer(input)))
  /\ pc = "ready"
  /\ returned = <<>>
  /\ x = Null
  /\ y = Null
  /\ eq = FALSE
  /\ codegen = <<>>
  /\ lowered = <<>>
  /\ graph = <<>>
  /\ path = <<>>
  /\ thrown = FALSE

\* step() has returned r (or thrown)
Stepped(r) ==
  /\ returned' = Append(returned, r.ast)
  /\ lexer_' = r.p.lexer_
  /\ current_token_' = r.p.current_token_
  /\ pc' = IF Threw(r) THEN "threw" ELSE "ready"

\* the caller calls Parser::step
Step ==
  /\ pc = "ready"
  /\ Len(returned) < MaxSteps
  /\ Stepped(step(P))
  /\ UNCHANGED <<input, src, x, y, eq, codegen, lowered, graph, path, thrown>>

\* the caller calls Parser::parse
Parse ==
  /\ pc = "ready"
  /\ returned = <<>>
  /\ pc' = "parse"
  /\ UNCHANGED <<input, src, lexer_, current_token_, returned, x, y, eq, codegen, lowered, graph, path, thrown>>

\* step(); next_token();
StepAndSkip(r) == IF Threw(r) THEN r ELSE Ret(r.ast, next_token(r.p))

Looped(r) ==
  /\ returned' = Append(returned, r.ast)
  /\ lexer_' = r.p.lexer_
  /\ current_token_' = r.p.current_token_
  /\ pc' = IF Threw(r) THEN "threw" ELSE "parse"

\* one turn of the loop of Parser::parse
ParseLoop ==
  /\ pc = "parse"
  /\ current_token_.type # "tok_eof"
  /\ Looped(StepAndSkip(step(P)))
  /\ UNCHANGED <<input, src, x, y, eq, codegen, lowered, graph, path, thrown>>

\* Parser::parse returns at EOF
ParseReturn ==
  /\ pc = "parse"
  /\ current_token_.type = "tok_eof"
  /\ pc' = "done"
  /\ UNCHANGED <<input, src, lexer_, current_token_, returned, x, y, eq, codegen, lowered, graph, path, thrown>>

Next == Step \/ Parse \/ ParseLoop \/ ParseReturn

Spec == Init /\ [][Next]_vars

----------------------------------------------------------------------------
(* Claims about the parser *)

Anonymous(body) == FunctionAST(PrototypeAST(<<>>, <<>>), body)

HasPrim(e, k) == \E i \in 1..Len(e.prims) : e.prims[i].k = k

Stepped1 == Len(returned) >= 1

\* C1: a chain of primaries joined by operators of {<, +, -, *} parses to the
\* tree of standard precedence grouping: the higher precedence binds first,
\* equal precedences group to the left.
C1_PrecedenceGrouping ==
  (src.family = "chain" /\ Stepped1) => returned[1] = Anonymous(Tree(src.e))

C1_Witness ==
  /\ src.family = "chain"
  /\ src.e.ops = <<"-", "+", "*">>
  /\ Stepped1
  /\ returned[1].kind = "FunctionAST"
  /\ returned[1].body.lhs.op = "-"

\* C2: "(" e ")" is a primary that parses to the tree of e, and "(" e not
\* followed by ")" yields no result.
C2_Parentheses ==
  /\ (src.family = "nested" /\ HasPrim(src.e, "paren") /\ Stepped1)
       => returned[1] = Anonymous(Tree(src.e))
  /\ (src.family = "badparen" /\ Stepped1) => returned[1] = Null

C2_Witness ==
  /\ src.family = "nested"
  /\ Len(src.e.ops) = 1
  /\ src.e.ops[1] = "*"
  /\ src.e.prims[1] = Paren(Chain(<<Var(<<"x">>), Var(<<"y">>)>>, <<"+">>))
  /\ Stepped1
  /\ returned[1].kind = "FunctionAST"
  /\ returned[1].body.op = "*"
  /\ returned[1].body.lhs.op = "+"

C4_CallArgs ==
  /\ (src.family = "nested" /\ HasPrim(src.e, "call") /\ Stepped1)
       => returned[1] = Anonymous(Tree(src.e))
  /\ (src.family = "badcall" /\ Stepped1) => returned[1] = Null

C4_Witness ==
  /\ src.family = "nested"
  /\ src.e.ops = <<>>
  /\ src.e.prims[1].k = "call"
  /\ Len(src.e.prims[1].args) = 2
  /\ Stepped1
  /\ returned[1].kind = "FunctionAST"
  /\ returned[1].body.kind = "CallExprAST"
  /\ Len(returned[1].body.args) = 2

\* C5: step dispatches on the lookahead: def gives the Function of prototype
\* and body, extern the Prototype alone, any other start of an expression the
\* Function of the expression under the prototype with no name and no parameters.
C5_StepDispatch ==
  (src.family = "form" /\ Stepped1) => returned[1] = FormTree(src.f)

C5_Witness ==
  /\ src.family = "form"
  /\ src.f.form = "def"
  /\ Stepped1
  /\ returned[1].kind = "FunctionAST"
  /\ returned[1].body.kind = "BinaryExprAST"

RECURSIVE NonNull(_)
NonNull(rs) ==
  IF rs = <<>> THEN <<>>
  ELSE IF Head(rs) = Null THEN NonNull(Tail(rs))
  ELSE <<Head(rs)>> \o NonNull(Tail(rs))

\* C6: at a ";" step consumes it and goes on with the form that follows: it
\* returns that form, and returns no form only at EOF.
C6_SeparatorContinues ==
  (src.family = "sep" /\ Stepped1)
    => returned[1] = (IF src.rest = <<>> THEN Null ELSE FormTree(src.rest[1]))

\* C7: on a sequence of well-formed top-level forms, with or without ";"
\* between them, parse parses every form once and in order, and discards no
\* token but a ";" between two forms.
C7_FormsInOrder ==
  (src.family = "seq" /\ pc = "done")
    => NonNull(returned) = [i \in 1..Len(src.forms) |-> FormTree(src.forms[i])]

\* C8: a parse error abandons only the current form: after a malformed form
\* and a ";", parse still parses the well-formed form that follows.
C8_RecoversAfterError ==
  (src.family = "recover" /\ pc = "done")
    => \E i \in 1..Len(returned) : returned[i] = FormTree(src.good)

\* C9: on every token stream of the lexer, a Number token of dots included,
\* step returns a node or a null result and never raises an exception.
C9_StepNeverThrows ==
  /\ pc # "threw"
  /\ \A i \in 1..Len(returned) : returned[i] # Exception

----------------------------------------------------------------------------
(* AST::operator== (src/hls/ast.hpp). The call is virtual: the class of    *)
(* the left node picks the overload, and a dynamic_cast of the right node  *)
(* to that class throws std::bad_cast, caught to answer false, when the    *)
(* right node is of another class.                                         *)

RECURSIVE ASTEq(_, _)

\* NumberExprAST::operator==
NumberEq(a, b) == b.kind = "NumberExprAST" /\ a.val = b.val

\* VariableExprAST::operator==
VariableEq(a, b) == b.kind = "VariableExprAST" /\ a.name = b.name

\* BinaryExprAST::operator==
BinaryEq(a, b) ==
  /\ b.kind = "BinaryExprAST"
  /\ a.op = b.op /\ ASTEq(a.lhs, b.lhs) /\ ASTEq(a.rhs, b.rhs)

\* the loop of CallExprAST::operator== with = for &= : the last argument decides
RECURSIVE ArgsEqLast(_, _, _, _)
ArgsEqLast(result, as, bs, idx) ==
  IF idx > Len(as) THEN result
  ELSE ArgsEqLast(ASTEq(as[idx], bs[idx]), as, bs, idx + 1)

\* for (idx ...) result &= (*args_[idx] == *rhs.args_[idx])
RECURSIVE ArgsEq(_, _, _, _)
ArgsEq(result, as, bs, idx) ==
  IF idx > Len(as) THEN result
  ELSE ArgsEq(result /\ ASTEq(as[idx], bs[idx]), as, bs, idx + 1)

\* CallExprAST::operator==
CallEq(a, b) ==
  /\ b.kind = "CallExprAST"
  /\ IF Len(a.args) # Len(b.args) THEN FALSE
     ELSE ArgsEq(a.callee = b.callee, a.args, b.args, 1)

\* for (idx ...) result &= args_[idx] == rhs_recast.args_[idx]
RECURSIVE NamesEq(_, _, _, _)
NamesEq(result, as, bs, idx) ==
  IF idx > Len(as) THEN result
  ELSE NamesEq(result /\ as[idx] = bs[idx], as, bs, idx + 1)

\* PrototypeAST::operator==
PrototypeEq(a, b) ==
  /\ b.kind = "PrototypeAST"
  /\ IF Len(a.args) # Len(b.args) THEN FALSE
     ELSE NamesEq(a.name = b.name, a.args, b.args, 1)

\* FunctionAST::operator==
FunctionEq(a, b) ==
  /\ b.kind = "FunctionAST"
  /\ ASTEq(a.proto, b.proto) /\ ASTEq(a.body, b.body)

\* *a == b
ASTEq(a, b) ==
  CASE a.kind = "NumberExprAST" -> NumberEq(a, b)
    [] a.kind = "VariableExprAST" -> VariableEq(a, b)
    [] a.kind = "BinaryExprAST" -> BinaryEq(a, b)
    [] a.kind = "CallExprAST" -> CallEq(a, b)
    [] a.kind = "PrototypeAST" -> PrototypeEq(a, b)
    [] a.kind = "FunctionAST" -> FunctionEq(a, b)

\* the nodes compared: leaves, one level of operators and calls over them, a
\* few deeper trees, prototypes and functions
Leaves ==
  { NumberExprAST(Decimal(1, 0)), NumberExprAST(Decimal(15, 1)),
    VariableExprAST(<<"a">>), VariableExprAST(<<"b">>) }

Binaries == { BinaryExprAST(op, l, r) : op \in {"+", "*"}, l \in Leaves, r \in Leaves }

ArgLeaves == { NumberExprAST(Decimal(1, 0)), VariableExprAST(<<"a">>) }

CallNodes ==
  { CallExprAST(c, args) : c \in {<<"f">>, <<"g">>}, args \in SeqsUpTo(ArgLeaves, MaxArgs) }

Sums == { BinaryExprAST("+", l, r) : l \in ArgLeaves, r \in ArgLeaves }

Deeper ==
  { BinaryExprAST("*", l, r) : l \in Sums, r \in ArgLeaves }
  \cup { BinaryExprAST("*", VariableExprAST(<<"a">>), BinaryExprAST("<", l, VariableExprAST(<<"b">>))) :
           l \in Sums }
  \cup { CallExprAST(<<"f">>, <<l, r>>) : l \in Sums, r \in {VariableExprAST(<<"a">>), CallExprAST(<<"g">>, <<>>)} }

PrototypeNodes ==
  { PrototypeAST(n, ps) : n \in {<<"f">>, <<"g">>},
                          ps \in SeqsUpTo({<<"a">>, <<"b">>}, MaxParams) }

FunctionNodes ==
  { FunctionAST(pr, b) :
      pr \in { PrototypeAST(<<>>, <<>>), PrototypeAST(<<"f">>, <<<<"a">>>>),
               PrototypeAST(<<"f">>, <<<<"a">>, <<"b">>>>) },
      b \in ArgLeaves \cup Sums }

Nodes == Leaves \cup Binaries \cup CallNodes \cup Deeper \cup PrototypeNodes \cup FunctionNodes

\* two nodes, built independently
InitAST ==
  /\ x \in Nodes
  /\ y \in Nodes
  /\ eq = FALSE
  /\ pc = "nodes"
  /\ input = <<>>
  /\ src = [family |-> "ast"]
  /\ lexer_ = Lexer(<<>>)
  /\ current_token_ = TokNone
  /\ returned = <<>>
  /\ codegen = <<>>
  /\ lowered = <<>>
  /\ graph = <<>>
  /\ path = <<>>
  /\ thrown = FALSE

\* the caller evaluates x == y
Compare ==
  /\ pc = "nodes"
  /\ eq' = ASTEq(x, y)
  /\ pc' = "compared"
  /\ UNCHANGED <<input, src, lexer_, current_token_, returned, x, y, codegen, lowered, graph, path, thrown>>

\* the caller evaluates y == x
CompareBack ==
  /\ pc = "nodes"
  /\ eq' = ASTEq(y, x)
  /\ pc' = "compared back"
  /\ UNCHANGED <<input, src, lexer_, current_token_, returned, x, y, codegen, lowered, graph, path, thrown>>

NextAST == Compare \/ CompareBack

SpecAST == InitAST /\ [][NextAST]_vars

----------------------------------------------------------------------------
(* Claims about the prototypes the parser returns *)

Distinct(names) ==
  \A i, j \in 1..Len(names) : i # j => names[i] # names[j]

PrototypeOfNode(node) ==
  IF node.kind = "PrototypeAST" THEN node
  ELSE IF node.kind = "FunctionAST" THEN node.proto
  ELSE PrototypeAST(<<>>, <<>>)

\* C20: every Prototype the parser returns, alone (extern) or as the prototype
\* of a Function (def), has pairwise distinct parameter names.
C20_DistinctParams ==
  \A i \in 1..Len(returned) : Distinct(PrototypeOfNode(returned[i]).args)

----------------------------------------------------------------------------
(* The code generator of src/hls/ast_visitor.cpp. The state s that the      *)
(* visitors pass on holds the members of ASTCodegen, and with them: cerr,   *)
(* the diagnostics written to std::cerr; errs, how many times an IR value   *)
(* or routine was written to llvm::errs(); log, the events of the lowering  *)
(* in progress that leave no other trace; crashed, set once a null handle   *)
(* has been dereferenced (the process is gone: nothing acts after it).      *)
(*                                                                          *)
(* The module is the sequence of its routines [id, name, args, blocks], a   *)
(* block is [id, name, insts] and an instruction [id, op, ops]. A value is  *)
(* the null pointer, a uniqued constant, an argument of a routine or the    *)
(* result of an instruction; an llvm::Function* is the id of the routine    *)
(* (0 for nullptr) and an llvm::BasicBlock* the id of the block.            *)

IfExprAST(cond, then_expr, else_expr) ==
  [kind |-> "IfExprAST", cond |-> cond, then_expr |-> then_expr, else_expr |-> else_expr]

ForExprAST(loop_var, start_expr, end_expr, step_expr, body_expr) ==
  [kind |-> "ForExprAST", loop_var |-> loop_var, start_expr |-> start_expr,
   end_expr |-> end_expr, step_expr |-> step_expr, body_expr |-> body_expr]

NullV == [k |-> "nullptr"]

\* what an llvm::Value* that was never assigned may hold besides nullptr
Wild == [k |-> "indeterminate"]

ConstantFP(v) == [k |-> "ConstantFP", v |-> v]

ConstantInt(b) == [k |-> "ConstantInt", v |-> b]

Argument(fn, idx) == [k |-> "Argument", fn |-> fn, idx |-> idx]

Instruction(id) == [k |-> "Instruction", id |-> id]

IsConstant(v) == v.k \in {"ConstantFP", "ConstantInt"}

\* a null handle is dereferenced
Crash(s) == [s EXCEPT !.crashed = TRUE]

Logged(s, event) == [s EXCEPT !.log = Append(@, event)]

\* value->print(llvm::errs()); std::cout << std::endl;
print(s, v) ==
  IF v = NullV THEN Crash(s) ELSE [s EXCEPT !.errs = @ + 1]

\* function_->print(llvm::errs()); std::cout << std::endl;
print_function(s) ==
  IF s.function_ = 0 THEN Crash(s) ELSE [s EXCEPT !.errs = @ + 1]

\* ASTCodegen::value_error
value_error(s, msg) == [s EXCEPT !.value_ = NullV, !.cerr = Append(@, msg)]

\* ASTCodegen::function_error
function_error(s, msg) == [s EXCEPT !.function_ = 0, !.cerr = Append(@, msg)]

\* the block with an instruction more at its end, if it is the block `bb`
BlockWith(block, bb, inst) ==
  IF block.id = bb THEN [block EXCEPT !.insts = Append(@, inst)] ELSE block

RoutineWith(routine, bb, inst) ==
  [routine EXCEPT !.blocks = [i \in DOMAIN @ |-> BlockWith(@[i], bb, inst)]]

\* the builder inserts a new instruction at its insertion point and hands its
\* result back (in made)
Insert(s, op, ops) ==
  [s EXCEPT !.module_ = [i \in DOMAIN @ |->
                           RoutineWith(@[i], s.builder_, [id |-> s.ids, op |-> op, ops |-> ops])],
            !.made = Instruction(s.ids),
            !.ids = @ + 1]

\* what the builder's constant folder makes of an operation on constants
Fold(op, ops) ==
  CASE op = "fadd" -> ConstantFP(ops[1].v + ops[2].v)
    [] op = "fsub" -> ConstantFP(ops[1].v - ops[2].v)
    [] op = "fmul" -> ConstantFP(ops[1].v * ops[2].v)
    [] op = "fcmp ult" -> ConstantInt(ops[1].v < ops[2].v)
    [] op = "fcmp one" -> ConstantInt(ops[1].v # ops[2].v)
    [] op = "uitofp" -> ConstantFP(IF ops[1].v THEN 1 ELSE 0)

\* builder_->CreateFAdd, CreateFSub, CreateFMul, CreateFCmpULT, CreateFCmpONE,
\* CreateUIToFP: folded when every operand is a constant, inserted otherwise
Create(s, op, ops) ==
  IF \A i \in DOMAIN ops : IsConstant(ops[i])
    THEN [s EXCEPT !.made = Fold(op, ops)]
    ELSE Insert(s, op, ops)

\* llvm::BasicBlock::Create(*context_, name): a block in no routine yet
BasicBlockCreate(s) == [s EXCEPT !.made = s.ids, !.ids = @ + 1]

\* the index in the module of the routine with this id (0 when it has none)
IndexOf(module, fn) ==
  IF \E i \in DOMAIN module : module[i].id = fn
    THEN (CHOOSE i \in DOMAIN module : module[i].id = fn)
    ELSE 0

HasBlock(routine, bb) == \E j \in DOMAIN routine.blocks : routine.blocks[j].id = bb

\* bb->getParent(): the routine the block is in (0 when it is in none)
getParent(module, bb) ==
  IF \E i \in DOMAIN module : HasBlock(module[i], bb)
    THEN module[CHOOSE i \in DOMAIN module : HasBlock(module[i], bb)].id
    ELSE 0

RoutineWithBlock(routine, fn, bb, name) ==
  IF routine.id = fn
    THEN [routine EXCEPT !.blocks = Append(@, [id |-> bb, name |-> name, insts |-> <<>>])]
    ELSE routine

\* function->getBasicBlockList().push_back(bb)
push_back(s, fn, bb, name) ==
  IF fn = 0 THEN Crash(s)
  ELSE [s EXCEPT !.module_ = [i \in DOMAIN @ |-> RoutineWithBlock(@[i], fn, bb, name)]]

\* llvm::BasicBlock::Create(*context_, name, function): a new block at the end
\* of the routine; its id is handed back (in made)
BasicBlockCreateIn(s, fn, name) ==
  [push_back(s, fn, s.ids, name) EXCEPT !.made = s.ids, !.ids = @ + 1]

\* builder_->SetInsertPoint(bb)
SetInsertPoint(s, bb) == [s EXCEPT !.builder_ = bb]

\* phi->addIncoming(v, bb)
InstWithIncoming(inst, phi, v, bb) ==
  IF inst.id = phi.id THEN [inst EXCEPT !.ops = Append(@, <<v, bb>>)] ELSE inst

BlockWithIncoming(block, phi, v, bb) ==
  [block EXCEPT !.insts = [i \in DOMAIN @ |-> InstWithIncoming(@[i], phi, v, bb)]]

RoutineWithIncoming(routine, phi, v, bb) ==
  [routine EXCEPT !.blocks = [i \in DOMAIN @ |-> BlockWithIncoming(@[i], phi, v, bb)]]

addIncoming(s, phi, v, bb) ==
  [s EXCEPT !.module_ = [i \in DOMAIN @ |-> RoutineWithIncoming(@[i], phi, v, bb)]]

\* module_->getFunction(name): the id of the routine of that name (0 for
\* nullptr); a routine without a name is in no symbol table
getFunction(module, name) ==
  IF name # "" /\ \E i \in DOMAIN module : module[i].name = name
    THEN module[CHOOSE i \in DOMAIN module : module[i].name = name].id
    ELSE 0

----------------------------------------------------------------------------
(* The visitors of expressions *)

RECURSIVE accept(_, _)

\* if (incremental_print_) { value_->print(llvm::errs()); ... }
IncrementalPrint(s) ==
  IF s.incremental_print_ THEN print(s, s.value_) ELSE s

\* ASTCodegen::number_expr
number_expr(ast, s) ==
  IncrementalPrint([s EXCEPT !.value_ = ConstantFP(ast.val)])

\* named_values_[name] of a std::map: a name that is not a key becomes one,
\* bound to nullptr
Subscript(named_values, name) ==
  IF name \in DOMAIN named_values THEN named_values
  ELSE [n \in DOMAIN named_values \cup {name} |->
          IF n = name THEN NullV ELSE named_values[n]]

NotInSymbolTable(s) ==
  IF s.value_ = NullV
    THEN [s EXCEPT !.cerr = Append(@, "Variable not in symbol table.")]
    ELSE s

\* auto val = named_values_[ast.name()]; value_ = val ? val : nullptr;
LookedUp(s, name) ==
  [s EXCEPT !.named_values_ = Subscript(@, name),
            !.value_ = Subscript(s.named_values_, name)[name]]

\* ASTCodegen::variable_expr
variable_expr(ast, s) ==
  IncrementalPrint(NotInSymbolTable(LookedUp(s, ast.name)))

\* builder_->Create... with a null operand: the builder reads through it
CreateChecked(s, op, ops) ==
  IF \E i \in DOMAIN ops : ops[i] = NullV THEN Crash(s) ELSE Create(s, op, ops)

Valued(s) == IF s.crashed THEN s ELSE [s EXCEPT !.value_ = s.made]

\* value_ = builder_->CreateUIToFP(tmp_lhs, double, "booltmp")
BoolToFP(s) ==
  IF s.crashed THEN s ELSE Valued(CreateChecked(s, "uitofp", <<s.made>>))

\* the switch of binary_expr, and the print after it
BinarySwitch(ast, lhs, rhs, s) ==
  CASE ast.op = "+" -> IncrementalPrint(Valued(CreateChecked(s, "fadd", <<lhs, rhs>>)))
    [] ast.op = "-" -> IncrementalPrint(Valued(CreateChecked(s, "fsub", <<lhs, rhs>>)))
    [] ast.op = "*" -> IncrementalPrint(Valued(CreateChecked(s, "fmul", <<lhs, rhs>>)))
    [] ast.op = "<" ->
         IncrementalPrint(BoolToFP(CreateChecked(s, "fcmp ult", <<lhs, rhs>>)))
    [] OTHER -> value_error(s, "Unrecognised binary operator.")

\* binary_expr once both of its values are there
BinaryOf(ast, lhs, s) ==
  IF s.crashed THEN s
  ELSE IF lhs = NullV /\ s.value_ = NullV
    THEN value_error(s, "Neither LHS nor RHS could be found.")
  ELSE BinarySwitch(ast, lhs, s.value_, s)

\* the operand binary_expr lowers for its right-hand side: *ast.lhs()
RhsOperand(ast) == ast.lhs

\* llvm::Value* rhs = value(*ast.lhs());
BinaryRhs(ast, s) ==
  IF s.crashed THEN s ELSE BinaryOf(ast, s.value_, accept(RhsOperand(ast), s))

\* ASTCodegen::binary_expr
binary_expr(ast, s) == BinaryRhs(ast, accept(ast.lhs, s))

\* the loop of call_expr over the arguments: arg->accept(*this);
\* args.push_back(value_);
RECURSIVE call_args(_, _, _, _)

ArgPushed(ast, idx, args, s) ==
  IF s.crashed THEN [s EXCEPT !.made = args]
  ELSE call_args(ast, idx + 1, Append(args, s.value_), s)

call_args(ast, idx, args, s) ==
  IF idx > Len(ast.args) THEN [s EXCEPT !.made = args]
  ELSE ArgPushed(ast, idx, args, accept(ast.args[idx], s))

Callee(fn) == [k |-> "Function", id |-> fn]

\* llvm::CallInst over a null argument: the library stops the process when it
\* was built with its assertions, and inserts the call with the null operand
\* when it was built without
CallInst(s, ops) ==
  IF s.assertions /\ \E i \in DOMAIN ops : ops[i] = NullV
    THEN Crash(s)
    ELSE Insert(s, "call", ops)

\* value_ = builder_->CreateCall(callee, args, "calltmp"), and the print
CreateCall(callee, s) ==
  IF s.crashed THEN s
  ELSE IncrementalPrint(Valued(CallInst(s, <<Callee(callee)>> \o s.made)))

arg_size(module, fn) == Len(module[IndexOf(module, fn)].args)

CallOfCallee(ast, callee, s) ==
  IF callee = 0
    THEN function_error(s, "Function was not found in symbol table.")
  ELSE IF arg_size(s.module_, callee) # Len(ast.args)
    THEN function_error(s, "Number of arguments in CallExprAST does not match those in symbol table.")
  ELSE CreateCall(callee, call_args(ast, 1, <<>>, s))

\* ASTCodegen::call_expr
call_expr(ast, s) == CallOfCallee(ast, getFunction(s.module_, ast.callee), s)

Block(bb) == [k |-> "BasicBlock", id |-> bb]

\* builder_->CreateBr(bb)
CreateBr(s, bb) == Insert(s, "br", <<Block(bb)>>)

\* builder_->CreateCondBr(cond, then_bb, else_bb)
CreateCondBr(s, cond, then_bb, else_bb) ==
  Insert(s, "br", <<cond, Block(then_bb), Block(else_bb)>>)

\* builder_->CreatePHI(double, 2, name): a phi without incoming edges yet
CreatePHI(s) == Insert(s, "phi", <<>>)

\* the phi of the merge block and its two edges; phi_ = phi_node
IfPhi(f, phi, s) ==
  [addIncoming(addIncoming(s, phi, f.then_expr, f.then_bb), phi, f.else_expr, f.else_bb)
     EXCEPT !.phi_ = phi]

IfMerge(f, s) == IfPhi(f, s.made, s)

\* the merge block is put into the routine and the builder moved to it
IfCont(f, s) ==
  IfMerge(f, CreatePHI(SetInsertPoint(push_back(s, f.function, f.merge_bb, "ifcont"),
                                      f.merge_bb)))

\* if_expr after the else expression
IfElse(f, s) ==
  IF s.crashed THEN s
  ELSE IF s.value_ = NullV
    THEN value_error(s, "Couldn't generate IR for else expression.")
  ELSE IfCont([f EXCEPT !.else_expr = s.value_, !.else_bb = s.builder_],
              CreateBr(s, f.merge_bb))

\* if_expr after the then expression
IfThen(ast, f, s) ==
  IF s.crashed THEN s
  ELSE IF s.value_ = NullV
    THEN value_error(s, "Couldn't generate IR for then expression.")
  ELSE IfElse([f EXCEPT !.then_expr = s.value_, !.then_bb = s.builder_],
              accept(ast.else_expr,
                     SetInsertPoint(push_back(CreateBr(s, f.merge_bb),
                                              f.function, f.else_bb, "else"),
                                    f.else_bb)))

\* the branch on the condition; the builder moves to the then block
IfBranch(ast, f, s) ==
  IfThen(ast, f, accept(ast.then_expr,
                        SetInsertPoint(CreateCondBr(s, f.cond, f.then_bb, f.else_bb),
                                       f.then_bb)))

\* the three blocks of if_expr: then in the routine, else and ifcont in none
IfBlocks(ast, cond, function, s) ==
  IfBranch(ast,
           [cond |-> cond, function |-> function, then_bb |-> s.ids,
            else_bb |-> s.ids + 1, merge_bb |-> s.ids + 2,
            then_expr |-> NullV, else_expr |-> NullV],
           BasicBlockCreate(BasicBlockCreate(BasicBlockCreateIn(s, function, "then"))))

IfCompared(ast, s) ==
  IfBlocks(ast, s.made, getParent(s.module_, s.builder_), s)

\* if_expr after the condition
IfCond(ast, s) ==
  IF s.crashed THEN s
  ELSE IF s.value_ = NullV
    THEN value_error(s, "Couldn't generate IR for if-condition.")
  ELSE IfCompared(ast, CreateChecked(s, "fcmp one", <<s.value_, ConstantFP(0)>>))

\* ASTCodegen::if_expr
if_expr(ast, s) == IfCond(ast, accept(ast.cond, s))

\* named_values_[name] = v
Bind(named_values, name, v) ==
  [n \in DOMAIN named_values \cup {name} |-> IF n = name THEN v ELSE named_values[n]]

\* named_values_.erase(name)
Erase(named_values, name) ==
  [n \in DOMAIN named_values \ {name} |-> named_values[n]]

\* Restore that forgets the binding it shadowed: the name is erased whatever
\* it was bound to before the loop
RestoreErases(named_values, name, old_value) == Erase(named_values, name)

\* "Restore the unshadowed variable"
Restore(named_values, name, old_value) ==
  IF old_value # NullV THEN Bind(named_values, name, old_value)
  ELSE Erase(named_values, name)

\* an error return of for_expr after the induction variable was bound
\* (s: the visitor after value_error); nothing else is done before the return
ForFailed(ast, f, s) ==
  Logged(s, [event |-> "for_failed", loop_var |-> ast.loop_var, phi |-> f.phi,
             before |-> f.before, body |-> f.body, after |-> s.named_values_])

\* the end of for_expr: the binding restored, and the value of the loop
ForEnd(ast, f, s) ==
  Logged([s EXCEPT !.named_values_ = Restore(@, ast.loop_var, f.old_value),
                   !.value_ = ConstantFP(0)],
         [event |-> "for", loop_var |-> ast.loop_var, phi |-> f.phi, before |-> f.before,
          step_expr |-> ast.step_expr, f |-> f,
          body |-> f.body, after |-> Restore(s.named_values_, ast.loop_var, f.old_value)])

\* ForAfter that takes the block before the loop for the block of the backedge
ForAfterFromPreheader(ast, f, end_cond, after_loop_bb, s) ==
  ForEnd(ast, f,
         addIncoming(SetInsertPoint(CreateCondBr(s, end_cond, f.loop_bb, after_loop_bb),
                                    after_loop_bb),
                     f.phi, f.next_val, f.preheader_bb))

\* the branch back, the after_loop block and the backedge of the phi
ForAfter(ast, f, end_cond, after_loop_bb, s) ==
  ForEnd(ast, f,
         addIncoming(SetInsertPoint(CreateCondBr(s, end_cond, f.loop_bb, after_loop_bb),
                                    after_loop_bb),
                     f.phi, f.next_val, f.loop_end_bb))

ForBranch(ast, f, s) ==
  ForAfter(ast, [f EXCEPT !.loop_end_bb = s.builder_], s.made, s.ids,
           BasicBlockCreateIn(s, f.function, "after_loop"))

\* for_expr after the end expression
ForCond(ast, f, s) ==
  IF s.crashed THEN s
  ELSE IF s.value_ = NullV
    THEN ForFailed(ast, f, value_error(s, "Couldn't generate code for loop end expression."))
  ELSE ForBranch(ast, [f EXCEPT !.end_val = s.value_],
                 CreateChecked(s, "fcmp one", <<s.value_, ConstantFP(0)>>))

ForNext(ast, f, s) ==
  IF s.crashed THEN s
  ELSE ForCond(ast, [f EXCEPT !.next_val = s.made], accept(ast.end_expr, s))

\* for_expr once the step is there: next_val = CreateFAdd(phi, step_val)
ForStep(ast, f, step_val, s) ==
  ForNext(ast, f, CreateChecked(s, "fadd", <<f.phi, step_val>>))

ForStepExpr(ast, f, s) ==
  IF s.crashed THEN s
  ELSE IF s.value_ = NullV
    THEN ForFailed(ast, f, value_error(s, "Couldn't generate code for loop step."))
  ELSE ForStep(ast, f, s.value_, s)

\* for_expr after the body
ForBody(ast, f, s) ==
  IF s.crashed THEN s
  ELSE IF s.value_ = NullV
    THEN ForFailed(ast, f, value_error(s, "Couldn't generate code for loop body."))
  ELSE IF ast.step_expr # Null THEN ForStepExpr(ast, f, accept(ast.step_expr, s))
  ELSE ForStep(ast, f, ConstantFP(1), s)

\* the induction variable shadows what the name was bound to
ForShadow(ast, f, s) ==
  ForBody(ast, [f EXCEPT !.body = s.named_values_], accept(ast.body_expr, s))

ForPhi(ast, f, s) ==
  ForShadow(ast,
            [f EXCEPT !.phi = s.made,
                      !.old_value = Subscript(s.named_values_, ast.loop_var)[ast.loop_var]],
            [addIncoming(s, s.made, f.start_val, f.preheader_bb)
               EXCEPT !.named_values_ = Bind(@, ast.loop_var, s.made)])

\* the loop block and its phi
ForLoop(ast, f, s) ==
  ForPhi(ast, f, CreatePHI(SetInsertPoint(CreateBr(s, f.loop_bb), f.loop_bb)))

\* for_expr after the start expression
ForStart(ast, before, s) ==
  IF s.crashed THEN s
  ELSE IF s.value_ = NullV
    THEN value_error(s, "Couldn't generate code for for-loop start.")
  ELSE ForLoop(ast,
               [function |-> getParent(s.module_, s.builder_), preheader_bb |-> s.builder_,
                loop_bb |-> s.ids, start_val |-> s.value_, phi |-> NullV,
                old_value |-> NullV, next_val |-> NullV, end_val |-> NullV, loop_end_bb |-> 0,
                before |-> before, body |-> before],
               BasicBlockCreateIn(s, getParent(s.module_, s.builder_), "loop"))

\* ASTCodegen::for_expr
for_expr(ast, s) == ForStart(ast, s.named_values_, accept(ast.start_expr, s))

\* AST::accept: the visitor's method for the node
accept(ast, s) ==
  IF s.crashed THEN s
  ELSE CASE ast.kind = "NumberExprAST" -> number_expr(ast, s)
         [] ast.kind = "VariableExprAST" -> variable_expr(ast, s)
         [] ast.kind = "BinaryExprAST" -> binary_expr(ast, s)
         [] ast.kind = "IfExprAST" -> if_expr(ast, s)
         [] ast.kind = "ForExprAST" -> for_expr(ast, s)
         [] ast.kind = "CallExprAST" -> call_expr(ast, s)

----------------------------------------------------------------------------
(* The visitors of prototypes and functions *)

\* what a symbol table appends to a name that is taken, collision after
\* collision
Suffix == <<"1", "2", "3", "4", "5", "6", "7", "8", "9">>

\* arg.setName(ast.args()[arg_idx++]) for every argument of the new routine:
\* within one routine a name that is taken gets a number appended
RECURSIVE setNames(_, _, _, _)

setNames(args, idx, named, last_unique) ==
  IF idx > Len(args) THEN named
  ELSE IF \E i \in 1..Len(named) : named[i] = args[idx]
    THEN setNames(args, idx + 1, Append(named, args[idx] \o Suffix[last_unique + 1]),
                  last_unique + 1)
  ELSE setNames(args, idx + 1, Append(named, args[idx]), last_unique)

\* the name llvm::Function::Create gives the routine: the name asked for, with
\* a point and a number after it when the module has a routine of that name
Named(s, name) ==
  IF getFunction(s.module_, name) # 0 THEN name \o "." \o Suffix[s.last_unique + 1]
  ELSE name

Collided(s, name) ==
  IF getFunction(s.module_, name) # 0 THEN [s EXCEPT !.last_unique = @ + 1] ELSE s

FunctionCreate(s, ast, name) ==
  [s EXCEPT !.module_ = Append(@, [id |-> s.ids, name |-> name,
                                   args |-> setNames(ast.args, 1, <<>>, 0),
                                   blocks |-> <<>>]),
            !.function_ = s.ids,
            !.ids = @ + 1]

\* if (incremental_print_) { function_->print(llvm::errs()); ... }
IncrementalPrintFunction(s) ==
  IF s.incremental_print_ /\ ~s.crashed THEN print_function(s) ELSE s

\* ASTCodegen::prototype
prototype(ast, s) ==
  IncrementalPrintFunction(FunctionCreate(Collided(s, ast.name), ast, Named(s, ast.name)))

\* named_values_.clear(); for (auto& arg : function_->args())
\*   named_values_[arg.getName().data()] = &arg;
ArgumentsOf(routine) ==
  [n \in {routine.args[i] : i \in DOMAIN routine.args} |->
     Argument(routine.id, CHOOSE i \in DOMAIN routine.args : routine.args[i] = n)]

\* function_->eraseFromParent()
eraseFromParent(s) ==
  IF s.function_ = 0 THEN Crash(s)
  ELSE [s EXCEPT !.module_ = SelectSeq(@, LAMBDA r : r.id # s.function_)]

\* function_error("Function body could not be built.\n");
BodyNotBuilt(s) ==
  IF s.crashed THEN s ELSE function_error(s, "Function body could not be built.")

\* an instruction of the module has a null operand
NullOperand(module) ==
  \E r \in DOMAIN module : \E b \in DOMAIN module[r].blocks :
    \E i \in DOMAIN module[r].blocks[b].insts :
      \E o \in DOMAIN module[r].blocks[b].insts[i].ops :
        module[r].blocks[b].insts[i].ops[o] = NullV

\* llvm::verifyFunction(*function_) and fpm_->run(*function_): what the
\* back end does with the finished routine stays with the back end
VerifyAndOptimise(s) ==
  IF s.function_ = 0 \/ NullOperand(s.module_) THEN Crash(s) ELSE s

\* builder_->CreateRet(value_)
CreateRet(s) == Insert(s, "ret", <<s.value_>>)

\* function after the body has been visited
FunctionBody(s) ==
  IF s.crashed THEN s
  ELSE IF s.value_ # NullV THEN IncrementalPrintFunction(VerifyAndOptimise(CreateRet(s)))
  ELSE BodyNotBuilt(eraseFromParent(s))

\* the entry block, and the arguments of the routine as the names in scope
FunctionEntry(s) ==
  [s EXCEPT !.builder_ = s.made,
            !.named_values_ = ArgumentsOf(s.module_[IndexOf(s.module_, s.function_)])]

BodyStarts(s) ==
  Logged(s, [event |-> "body", function_ |-> s.function_, named_values_ |-> s.named_values_])

empty(s) == s.module_[IndexOf(s.module_, s.function_)].blocks = <<>>

\* Redefinition that discards the routine it found, body and all
RedefinitionErases(s) == function_error(eraseFromParent(s), "Function redefinition.")

\* return function_error("Function redefinition.\n");
Redefinition(s) == function_error(s, "Function redefinition.")

\* function once function_ is the routine of the name
FunctionDeclared(ast, s) ==
  IF s.crashed THEN s
  ELSE IF ~empty(s) THEN Redefinition(s)
  ELSE FunctionBody(accept(ast.body,
                           BodyStarts(FunctionEntry(
                             BasicBlockCreateIn(s, s.function_, "entry")))))

FunctionLookedUp(ast, function, s) ==
  IF function = 0 THEN FunctionDeclared(ast, prototype(ast.proto, s))
  ELSE FunctionDeclared(ast, [s EXCEPT !.function_ = function])

\* ASTCodegen::function
function(ast, s) == FunctionLookedUp(ast, getFunction(s.module_, ast.proto.name), s)

----------------------------------------------------------------------------
(* The nodes the visitor is handed: prototypes and functions, as the parser *)
(* returns them or as a caller builds them                                  *)

MaxUnits == 2     \* top-level nodes handed to one visitor

VarA == VariableExprAST("a")

VarB == VariableExprAST("b")

VarZ == VariableExprAST("z")

One == NumberExprAST(1)

Two == NumberExprAST(2)

BinaryBodies == { BinaryExprAST(op, VarA, VarB) : op \in {"+", "-", "*", "<"} }

UndefinedBodies ==
  { VarZ, BinaryExprAST("+", VarA, VarZ), BinaryExprAST("*", VarZ, VarA),
    CallExprAST("g", <<VarZ>>) }

CallBodies ==
  { CallExprAST("g", <<VarA>>), CallExprAST("g", <<>>), CallExprAST("h", <<VarA>>),
    BinaryExprAST("+", CallExprAST("g", <<VarB>>), One) }

IfBodies ==
  { IfExprAST(VarA, One, Two),
    IfExprAST(VarA, VarB, BinaryExprAST("-", VarA, VarB)),
    IfExprAST(VarA, IfExprAST(VarB, One, Two), VarB),
    IfExprAST(VarA, VarZ, One) }

ForBodies ==
  { ForExprAST("i", One, VarA, Null, VarB),
    ForExprAST("a", One, VarB, Two, VarA),
    ForExprAST("i", VarA, VariableExprAST("i"), Null,
               ForExprAST("i", One, VarB, Null, VariableExprAST("i"))),
    ForExprAST("i", One, VarA, Null, VarZ) }

Bodies ==
  {VarA, One, BinaryExprAST("+", One, Two)}
    \cup BinaryBodies \cup UndefinedBodies \cup CallBodies \cup IfBodies \cup ForBodies

Prototypes ==
  { PrototypeAST("f", <<"a", "b">>), PrototypeAST("f", <<"a">>),
    PrototypeAST("g", <<"a">>), PrototypeAST("f", <<"b", "b">>) }

Functions ==
  { FunctionAST(PrototypeAST("f", <<"a", "b">>), b) : b \in Bodies }
    \cup { FunctionAST(PrototypeAST("g", <<"a">>), b) : b \in {VarA, VarZ} }
    \cup { FunctionAST(PrototypeAST("f", <<"b">>), VarB),
           FunctionAST(PrototypeAST("f", <<"b", "b">>), VarB),
           FunctionAST(PrototypeAST("", <<>>), One),
           FunctionAST(PrototypeAST("", <<>>), CallExprAST("f", <<One, Two>>)) }

----------------------------------------------------------------------------
(* The visitor as its caller sees it *)

\* ASTCodegen::ASTCodegen; value_, function_ and phi_ are given no value
ASTCodegen(incremental_print, value, assertions) ==
  [incremental_print_ |-> incremental_print, assertions |-> assertions, module_ |-> <<>>, builder_ |-> 0,
   named_values_ |-> [n \in {} |-> NullV], value_ |-> value, function_ |-> 0,
   phi_ |-> NullV, ids |-> 1, last_unique |-> 0, made |-> NullV,
   cerr |-> <<>>, errs |-> 0, log |-> <<>>, crashed |-> FALSE]

InitCodegen ==
  /\ \E incremental_print \in BOOLEAN, value \in {NullV, Wild}, assertions \in BOOLEAN :
       codegen = ASTCodegen(incremental_print, value, assertions)
  /\ lowered = <<>>
  /\ graph = <<>>
  /\ path = <<>>
  /\ thrown = FALSE
  /\ pc = "codegen"
  /\ input = <<>>
  /\ src = [family |-> "codegen"]
  /\ lexer_ = Lexer(<<>>)
  /\ current_token_ = TokNone
  /\ returned = <<>>
  /\ x = Null
  /\ y = Null
  /\ eq = FALSE

\* the visitor before a node is handed to it
Visitor == [codegen EXCEPT !.log = <<>>]

Accepted(ast, s) ==
  /\ codegen' = s
  /\ lowered' = Append(lowered, [ast |-> ast, before |-> codegen])

\* the caller hands a Prototype to the visitor: ast.accept(visitor)
AcceptPrototype ==
  /\ pc = "codegen"
  /\ ~codegen.crashed
  /\ Len(lowered) < MaxUnits
  /\ \E ast \in Prototypes : Accepted(ast, prototype(ast, Visitor))
  /\ UNCHANGED <<input, src, lexer_, current_token_, pc, returned, x, y, eq, graph, path, thrown>>

\* the caller hands a Function to the visitor
AcceptFunction ==
  /\ pc = "codegen"
  /\ ~codegen.crashed
  /\ Len(lowered) < MaxUnits
  /\ \E ast \in Functions : Accepted(ast, function(ast, Visitor))
  /\ UNCHANGED <<input, src, lexer_, current_token_, pc, returned, x, y, eq, graph, path, thrown>>

NextCodegen == AcceptPrototype \/ AcceptFunction

SpecCodegen == InitCodegen /\ [][NextCodegen]_vars

----------------------------------------------------------------------------
(* Claims about the code generator. Last is the node handed to the visitor  *)
(* last and the visitor as it was before; the claims are about the visitor  *)
(* as that node left it.                                                    *)

Last == lowered[Len(lowered)]

FAB == PrototypeAST("f", <<"a", "b">>)

\* the last node is a Function of prototype f(a b) with this body, and the
\* module had no routine f before it
LoweredFresh(body) ==
  /\ Len(lowered) >= 1
  /\ Last.ast = FunctionAST(FAB, body)
  /\ getFunction(Last.before.module_, "f") = 0

RoutineNamed(module, name) == module[IndexOf(module, getFunction(module, name))]

HasRoutine(module, name) == getFunction(module, name) # 0

Opcode(op) ==
  CASE op = "+" -> "fadd" [] op = "-" -> "fsub" [] op = "*" -> "fmul" [] op = "<" -> "fcmp ult"

FirstInst(module, name) == RoutineNamed(module, name).blocks[1].insts[1]

\* C11: lowering BinaryOp(op, a, b) emits the instruction of op with the
\* lowered lhs (the first parameter) as first operand and the lowered rhs (the
\* second parameter) as second operand.
C11_BinaryOperands ==
  \A op \in {"+", "-", "*", "<"} :
    LoweredFresh(BinaryExprAST(op, VarA, VarB))
      => /\ HasRoutine(codegen.module_, "f")
         /\ FirstInst(codegen.module_, "f").op = Opcode(op)
         /\ FirstInst(codegen.module_, "f").ops =
              << Argument(getFunction(codegen.module_, "f"), 1),
                 Argument(getFunction(codegen.module_, "f"), 2) >>

\* the body refers to z, which is no parameter of f(a b), and to nothing else
\* that is missing
RefersToUndefined(body, module) ==
  \/ body \in {VarZ, BinaryExprAST("+", VarA, VarZ), BinaryExprAST("*", VarZ, VarA)}
  \/ /\ body = CallExprAST("g", <<VarZ>>)
     /\ HasRoutine(module, "g")
     /\ Len(RoutineNamed(module, "g").args) = 1

\* C12: a Function whose body refers to an unbound variable, at any position,
\* fails to lower without a crash: the null value reaches the function and the
\* routine is erased from the module (no return stays behind).
C12_UndefinedVariable ==
  \A body \in UndefinedBodies :
    (LoweredFresh(body) /\ RefersToUndefined(body, Last.before.module_))
      => /\ ~codegen.crashed
         /\ codegen.value_ = NullV
         /\ ~HasRoutine(codegen.module_, "f")

\* the body is a call of a name the module does not declare, or of g(a) with
\* no argument
BadCall(body, module) ==
  \/ body = CallExprAST("h", <<VarA>>) /\ ~HasRoutine(module, "h")
  \/ /\ body = CallExprAST("g", <<>>)
     /\ HasRoutine(module, "g")
     /\ Len(RoutineNamed(module, "g").args) = 1

Contains(module, routine) == \E i \in DOMAIN module : module[i] = routine

\* C13: a Function whose body calls an undeclared name, or a declared routine
\* with the wrong number of arguments, fails to lower: no null handle is
\* dereferenced, the function is not left in the module with a partial body,
\* and every routine declared before is unchanged.
C13_BadCall ==
  \A body \in CallBodies :
    (LoweredFresh(body) /\ BadCall(body, Last.before.module_))
      => /\ ~codegen.crashed
         /\ ~HasRoutine(codegen.module_, "f")
         /\ \A i \in DOMAIN Last.before.module_ :
              Contains(codegen.module_, Last.before.module_[i])

\* the last node is a Function, and the routine of its name had a body before
Redefines ==
  /\ Len(lowered) >= 1
  /\ Last.ast.kind = "FunctionAST"
  /\ HasRoutine(Last.before.module_, Last.ast.proto.name)
  /\ RoutineNamed(Last.before.module_, Last.ast.proto.name).blocks # <<>>

RoutinesNamed(module, name) == {i \in DOMAIN module : module[i].name = name}

\* C14: a Function whose name has a routine with a body fails with exactly one
\* diagnostic, the redefinition one; the module, and so that routine and its
\* body, is as before, and it has exactly one routine of the name.
C14_Redefinition ==
  Redefines
    => /\ ~codegen.crashed
       /\ codegen.cerr = Append(Last.before.cerr, "Function redefinition.")
       /\ codegen.module_ = Last.before.module_
       /\ Cardinality(RoutinesNamed(codegen.module_, Last.ast.proto.name)) = 1

C14_Witness ==
  /\ Redefines
  /\ Len(lowered) = 2
  /\ lowered[1].ast.kind = "FunctionAST"
  /\ lowered[1].ast.body # Last.ast.body
  /\ codegen.cerr = <<"Function redefinition.">>

\* the last node is a Function whose name had no routine with a body, and its
\* lowering did not succeed: a diagnostic was written, or the visitor crashed
BodyFailed ==
  /\ Len(lowered) >= 1
  /\ Last.ast.kind = "FunctionAST"
  /\ ~Redefines
  /\ (codegen.crashed \/ Len(codegen.cerr) > Len(Last.before.cerr))

\* the node before the last was a Function of the same name that failed to
\* lower without a crash, and the last one is def f(a b) a
Retried ==
  /\ Len(lowered) = 2
  /\ lowered[1].ast.kind = "FunctionAST"
  /\ lowered[1].ast.proto = FAB
  /\ Len(lowered[2].before.cerr) > 0
  /\ Last.ast = FunctionAST(FAB, VarA)

\* C15: after a Function f has failed to lower its body no routine f with a
\* body, whole or partial, is in the module; and a well-formed Function f
\* handed to the visitor after it lowers to a routine with a body.
C15_FailedThenDefined ==
  /\ BodyFailed
       => \/ ~HasRoutine(codegen.module_, Last.ast.proto.name)
          \/ RoutineNamed(codegen.module_, Last.ast.proto.name).blocks = <<>>
  /\ Retried
       => /\ HasRoutine(codegen.module_, "f")
          /\ RoutineNamed(codegen.module_, "f").blocks # <<>>
          /\ codegen.cerr = Last.before.cerr

\* C16: a name the module declared before a node was lowered is still
\* declared after it.
C16_DeclarationsStay ==
  Len(lowered) >= 1
    => \A i \in DOMAIN Last.before.module_ :
         Last.before.module_[i].name # ""
           => HasRoutine(codegen.module_, Last.before.module_[i].name)

BodyEvents == {i \in DOMAIN codegen.log : codegen.log[i].event = "body"}

\* C17: when the body of a Function is about to be lowered the keys of
\* named_values_ are the parameter names of the Function's own prototype, each
\* bound to the routine's parameter of the same position.
C17_LocalsAreOwnParams ==
  \A i \in BodyEvents :
    Distinct(Last.ast.proto.args)
      => /\ DOMAIN codegen.log[i].named_values_ =
              {Last.ast.proto.args[k] : k \in DOMAIN Last.ast.proto.args}
         /\ \A k \in DOMAIN Last.ast.proto.args :
              codegen.log[i].named_values_[Last.ast.proto.args[k]] =
                Argument(codegen.log[i].function_, k)

ForEvents == {i \in DOMAIN codegen.log : codegen.log[i].event = "for"}

\* the names bound to a value (a name bound to nullptr is one that was looked
\* up and not found)
Bound(named_values) == {n \in DOMAIN named_values : named_values[n] # NullV}

SameBindings(before, after) ==
  /\ Bound(before) = Bound(after)
  /\ \A n \in Bound(before) : after[n] = before[n]

\* C18: a BoundedLoop that lowers leaves named_values_ as it was: a name bound
\* before is bound to the same value after, the induction variable is absent
\* after if it was not bound before, and in between it is bound to the phi.
C18_LoopRestoresLocals ==
  \A i \in ForEvents :
    /\ SameBindings(codegen.log[i].before, codegen.log[i].after)
    /\ codegen.log[i].loop_var \notin Bound(codegen.log[i].before)
         => codegen.log[i].loop_var \notin DOMAIN codegen.log[i].after
    /\ codegen.log[i].body[codegen.log[i].loop_var] = codegen.log[i].phi

C18_Witness ==
  \E i \in ForEvents :
    /\ codegen.log[i].loop_var \in Bound(codegen.log[i].before)
    /\ codegen.log[i].after[codegen.log[i].loop_var]
         = Argument(getFunction(codegen.module_, "f"), 1)
    /\ ~codegen.crashed

LastBlock(module, name) ==
  RoutineNamed(module, name).blocks[Len(RoutineNamed(module, name).blocks)]

\* C19: the value a Conditional hands to its parent is the phi of the merge
\* block, which has the two incoming edges: of a function whose body is a
\* Conditional the last block holds the phi and the return of the phi.
C19_ConditionalValue ==
  \A body \in IfBodies :
    (LoweredFresh(body) /\ ~codegen.crashed /\ HasRoutine(codegen.module_, "f"))
      => /\ LastBlock(codegen.module_, "f").insts[1].op = "phi"
         /\ Len(LastBlock(codegen.module_, "f").insts[1].ops) = 2
         /\ LastBlock(codegen.module_, "f").insts[2].op = "ret"
         /\ LastBlock(codegen.module_, "f").insts[2].ops =
              <<Instruction(LastBlock(codegen.module_, "f").insts[1].id)>>

----------------------------------------------------------------------------
(* Claims about the operators of the trees the parser returns *)

\* the operators of the BinaryOp nodes of a tree
RECURSIVE BinaryOps(_)

ArgsBinaryOps(args) == UNION {BinaryOps(args[i]) : i \in DOMAIN args}

BinaryOps(node) ==
  CASE node.kind = "BinaryExprAST" -> {node.op} \cup BinaryOps(node.lhs) \cup BinaryOps(node.rhs)
    [] node.kind = "CallExprAST" -> ArgsBinaryOps(node.args)
    [] node.kind = "FunctionAST" -> BinaryOps(node.body)
    [] OTHER -> {}

\* C21: every BinaryOp node of every tree the parser returns has an operator
\* of the precedence table: no other operator token is taken as a binary
\* operator, at any depth of parse_binop_rhs.
C21_OperatorsOfTable ==
  \A i \in 1..Len(returned) : BinaryOps(returned[i]) \subseteq Ops

\* an expression followed by an operator that is not of the table has been
\* parsed up to that operator
C21_Witness ==
  /\ src.family = "trail"
  /\ Len(src.e.ops) >= 2
  /\ Stepped1
  /\ returned[1] = Anonymous(Tree(src.e))
  /\ current_token_ = Token("tok_operator", <<src.op>>)

----------------------------------------------------------------------------
(* The lexer as its caller sees it: get_token, call after call, over a text *)
(* of a few characters, next to the tokens of the same text with every      *)
(* comment replaced by a line break                                         *)

MaxText == 4      \* characters of a text handed to the lexer alone

TextChars == { "#", "\n", "\r", " ", "a", "1", "+" }

\* the text from the end of the line on
RECURSIVE DropLine(_)
DropLine(text) ==
  IF text = <<>> \/ Head(text) \in {"\n", "\r"} THEN text ELSE DropLine(Tail(text))

\* the text with a line break for every comment
RECURSIVE Uncommented(_)
Uncommented(text) ==
  IF text = <<>> THEN <<>>
  ELSE IF Head(text) = "#" THEN <<"\n">> \o Uncommented(DropLine(Tail(text)))
  ELSE <<Head(text)>> \o Uncommented(Tail(text))

\* the tokens get_token returns up to the first EOF token
RECURSIVE AllTokens(_)

TokensFrom(r) ==
  IF r.tok.type = "tok_eof" THEN <<r.tok>> ELSE <<r.tok>> \o AllTokens(r.lexer)

AllTokens(L) == TokensFrom(get_token(L))

LexSrc ==
  { [family |-> "lex", text |-> t, plain |-> AllTokens(Lexer(Uncommented(t)))] :
      t \in SeqsUpTo(TextChars, MaxText) }

InitLexer ==
  /\ src \in LexSrc
  /\ input = src.text
  /\ lexer_ = Lexer(input)
  /\ current_token_ = TokNone
  /\ pc = "lexing"
  /\ returned = <<>>
  /\ x = Null
  /\ y = Null
  /\ eq = FALSE
  /\ codegen = <<>>
  /\ lowered = <<>>
  /\ graph = <<>>
  /\ path = <<>>
  /\ thrown = FALSE

\* the caller has been handed the EOF token
GotEof == returned # <<>> /\ returned[Len(returned)].type = "tok_eof"

GotToken(r) ==
  /\ returned' = Append(returned, r.tok)
  /\ lexer_' = r.lexer

\* the caller calls Lexer::get_token, until it has been handed the EOF token
GetToken ==
  /\ pc = "lexing"
  /\ ~GotEof
  /\ GotToken(get_token(lexer_))
  /\ UNCHANGED <<input, src, current_token_, pc, x, y, eq, codegen, lowered, graph, path, thrown>>

\* get_token once more after the EOF token
GetTokenAtEof ==
  /\ pc = "lexing"
  /\ GotEof
  /\ GotToken(get_token(lexer_))
  /\ pc' = "eof"
  /\ UNCHANGED <<input, src, current_token_, x, y, eq, codegen, lowered, graph, path, thrown>>

NextLexer == GetToken \/ GetTokenAtEof

SpecLexer == InitLexer /\ [][NextLexer]_vars

\* C22: whitespace and comments produce no tokens: the tokens of a text are
\* the tokens of the text with a line break for every comment, call after
\* call, and so a comment that ends the text is followed by the EOF token.
C22_CommentsInvisible ==
  pc = "lexing"
    => /\ Len(returned) <= Len(src.plain)
       /\ returned = SubSeq(src.plain, 1, Len(returned))
       /\ GotEof => returned = src.plain

\* a comment between two tokens, ended by '\r', has been lexed over
C22_Witness ==
  /\ pc = "lexing"
  /\ src.text = <<"a", "#", "\r", "1">>
  /\ returned = <<Token("tok_identifier", <<"a">>), Token("tok_number", <<"1">>),
                  Token("tok_eof", <<>>)>>

FailedForEvents == {i \in DOMAIN codegen.log : codegen.log[i].event = "for_failed"}

\* C25: when a BoundedLoop fails in its body, step or end expression, the
\* shadow of the induction variable is closed by the time for_expr returns:
\* named_values_ binds the names it bound before the loop, to the same values.
C25_ShadowClosedOnFailure ==
  \A i \in FailedForEvents : SameBindings(codegen.log[i].before, codegen.log[i].after)

\* the module holds a call instruction with a null argument
NullArgumentCall(module) ==
  \E r \in DOMAIN module : \E b \in DOMAIN module[r].blocks :
    \E i \in DOMAIN module[r].blocks[b].insts :
      /\ module[r].blocks[b].insts[i].op = "call"
      /\ \E o \in DOMAIN module[r].blocks[b].insts[i].ops :
           module[r].blocks[b].insts[i].ops[o] = NullV

\* C26: a Call one of whose arguments yields null yields null itself, and no
\* call instruction with a null argument is emitted (the visitor does not
\* print incrementally, and g is declared with one parameter).
C26_NullArgument ==
  ( /\ LoweredFresh(CallExprAST("g", <<VarZ>>))
    /\ RefersToUndefined(CallExprAST("g", <<VarZ>>), Last.before.module_)
    /\ ~Last.before.incremental_print_ )
    => /\ ~codegen.crashed
       /\ codegen.value_ = NullV
       /\ ~NullArgumentCall(codegen.module_)

\* what lowering a top-level form comes to: whether the process survived it,
\* and the routines of the module
Outcome(s) == [crashed |-> s.crashed, module_ |-> s.module_]

\* the visitor a form was handed to, with another value left in its cache
Leftover(before, value) == [before EXCEPT !.value_ = value, !.log = <<>>]

\* the visitor after a top-level form
LoweredBy(ast, s) ==
  IF ast.kind = "FunctionAST" THEN function(ast, s) ELSE prototype(ast, s)

\* C27: the result of lowering a top-level form does not depend on the value
\* earlier forms left in value_: a visitor in the same state but for value_
\* comes to the same result for the same form.
C27_CacheIndependent ==
  Len(lowered) >= 1
    => \A value \in {NullV, Wild} :
         Outcome(LoweredBy(Last.ast, Leftover(Last.before, value))) = Outcome(codegen)

\* the instructions of the module, each with the block it is in
BlockInsts(block) == {[bb |-> block.id, inst |-> block.insts[i]] : i \in DOMAIN block.insts}

RoutineInsts(routine) == UNION {BlockInsts(routine.blocks[b]) : b \in DOMAIN routine.blocks}

AllInsts(module) == UNION {RoutineInsts(module[r]) : r \in DOMAIN module}

HasInst(module, v) ==
  /\ v.k = "Instruction"
  /\ \E e \in AllInsts(module) : e.inst.id = v.id

InstAt(module, v) == CHOOSE e \in AllInsts(module) : e.inst.id = v.id

\* the last instruction of the block
Terminator(module, bb) ==
  CHOOSE e \in AllInsts(module) :
    /\ e.bb = bb
    /\ \A o \in AllInsts(module) : o.bb = bb => o.inst.id <= e.inst.id

\* the comparison of a value with 0.0 as the builder hands it back
NotZero(module, cond, end_val) ==
  IF IsConstant(end_val) THEN cond = ConstantInt(end_val.v # 0)
  ELSE /\ HasInst(module, cond)
       /\ InstAt(module, cond).inst.op = "fcmp one"
       /\ InstAt(module, cond).inst.ops = <<end_val, ConstantFP(0)>>

\* the branch at the end of the loop: to loop_bb when the end value is not
\* zero, out of the loop otherwise
BranchesBack(module, br, loop_bb, end_val) ==
  /\ br.op = "br"
  /\ Len(br.ops) = 3
  /\ NotZero(module, br.ops[1], end_val)
  /\ br.ops[2] = Block(loop_bb)
  /\ br.ops[3] # Block(loop_bb)

\* the successor of the induction variable: phi + step
NextOf(next, phi, step_expr) ==
  /\ next.op = "fadd"
  /\ next.ops[1] = phi
  /\ step_expr = Null => next.ops[2] = ConstantFP(1)

LoopBuilt(module, e) ==
  /\ InstAt(module, e.phi).inst.op = "phi"
  /\ InstAt(module, e.phi).inst.ops
       = << <<e.f.start_val, e.f.preheader_bb>>, <<e.f.next_val, e.f.loop_end_bb>> >>
  /\ HasInst(module, e.f.next_val)
  /\ NextOf(InstAt(module, e.f.next_val).inst, e.phi, e.step_expr)
  /\ BranchesBack(module, Terminator(module, e.f.loop_end_bb).inst,
                  InstAt(module, e.phi).bb, e.f.end_val)

Remaining ==
  Len(lexer_.input_) + (IF lexer_.last_char_ = EOF THEN 0 ELSE 1)
    + (IF current_token_.type = "tok_eof" THEN 0 ELSE 1)

\* C29: Parser::parse terminates on every input: a turn of its loop (with all
\* the turns of the loops of parse_binop_rhs, parse_prototype and the argument
\* list inside it) consumes input or leaves the loop, so that the loop is left
\* after at most as many turns as there was input.
C29_ParseProgress ==
  [][pc = "parse" => (pc' \in {"done", "threw"} \/ Remaining' < Remaining)]_vars

\* parse has returned from an input whose first form was malformed, after
\* more than one turn of its loop
C29_Witness ==
  /\ pc = "done"
  /\ Len(returned) >= 2
  /\ returned[1] = Null
  /\ returned[Len(returned)] # Null

----------------------------------------------------------------------------
(* Graph and GraphShortestPath *)

\* std::numeric_limits<int>::max()
INT_MAX == 2147483647

\* the vertices a caller holds (std::shared_ptr<Vertex>, ordered as pointers
\* are) and the weights it gives its edges
Vertices == {1, 2, 3}

\* the weight of the edges of GraphTests.EdgeAddition
edge_weight == 20

\* the weights of the edges of the graphs handed to GraphShortestPath
Weights == {0, 1, 2, INT_MAX}

\* Graph::Graph
Graph == [vertices_ |-> <<>>, edges_ |-> [v \in {} |-> <<>>]]

Edge(src_, dest_, weight_) == [src_ |-> src_, dest_ |-> dest_, weight_ |-> weight_]

\* what a call on the Graph comes to: the Graph after it, and whether it threw
Returned(g) == [graph |-> g, threw |-> FALSE]

Thrown(g) == [graph |-> g, threw |-> TRUE]

\* Graph::vertex_exists
vertex_exists(g, vertex) == \E i \in DOMAIN g.vertices_ : g.vertices_[i] = vertex

\* edges_[vertex] = list
WithEdges(edges, vertex, list) ==
  [v \in DOMAIN edges \cup {vertex} |-> IF v = vertex THEN list ELSE edges[v]]

\* Graph::add_vertex
add_vertex(g, vertex) ==
  IF vertex_exists(g, vertex) THEN Thrown(g)
  ELSE Returned([vertices_ |-> Append(g.vertices_, vertex),
                 edges_ |-> WithEdges(g.edges_, vertex, <<>>)])

\* Graph::edge_exists
edge_exists(g, vertex_a, vertex_b) ==
  /\ vertex_exists(g, vertex_a)
  /\ vertex_exists(g, vertex_b)
  /\ \E i \in DOMAIN g.edges_[vertex_a] :
       g.edges_[vertex_a][i].src_ = vertex_b \/ g.edges_[vertex_a][i].dest_ = vertex_b

\* edges_[vertex].push_back(edge)
PushEdge(g, vertex, edge) ==
  [g EXCEPT !.edges_ = WithEdges(@, vertex, Append(@[vertex], edge))]

\* if (!vertex_exists(vertex)) add_vertex(vertex)
AddIfMissing(g, vertex) ==
  IF vertex_exists(g, vertex) THEN g ELSE add_vertex(g, vertex).graph

\* add_edge once both vertices are in the Graph
EdgeOf(g, src_, dest_, weight_) ==
  IF edge_exists(g, src_, dest_) THEN Thrown(g)
  ELSE Returned(PushEdge(PushEdge(g, src_, Edge(src_, dest_, weight_)),
                         dest_, Edge(src_, dest_, weight_)))

\* Graph::add_edge
add_edge(g, src_, dest_, weight_) ==
  EdgeOf(AddIfMissing(AddIfMissing(g, src_), dest_), src_, dest_, weight_)

\* Graph::outputs (of a vertex of the Graph)
outputs(g, vertex) == SelectSeq(g.edges_[vertex], LAMBDA edge : edge.dest_ # vertex)

\* GraphShortestPath::GraphShortestPath, and the locals of dijkstra before its
\* loop: path_.distance is not assigned before dijkstra returns
GraphShortestPath(start, end) ==
  [start_ |-> start, end_ |-> end, distance |-> "unassigned",
   unvisited |-> {}, distances |-> [v \in {} |-> 0], current |-> start, trapped |-> FALSE]

\* dijkstra up to its loop: every vertex unvisited and at INT_MAX, but for the
\* start vertex at 0
Started(p, g) ==
  [p EXCEPT !.unvisited = {g.vertices_[i] : i \in DOMAIN g.vertices_},
            !.distances = [v \in {g.vertices_[i] : i \in DOMAIN g.vertices_} \cup {p.start_} |->
                             IF v = p.start_ THEN 0 ELSE INT_MAX],
            !.current = p.start_]

\* int temp_dist = distances[current] + edge.weight(): beyond INT_MAX the sum
\* is undefined; a build either wraps it around or traps
Overflows(a, b) == a > INT_MAX - b

\* the sum as an int wraps it around (b is not negative)
Sum(a, b) ==
  IF Overflows(a, b) THEN (a - INT_MAX - 1) + (b - INT_MAX - 1) ELSE a + b

\* the update of the distance of the neighbour
Updated(p, dest_, weight_, wraps) ==
  IF Overflows(p.distances[p.current], weight_) /\ ~wraps THEN [p EXCEPT !.trapped = TRUE]
  ELSE IF Sum(p.distances[p.current], weight_) <= p.distances[dest_]
    THEN [p EXCEPT !.distances[dest_] = Sum(p.distances[p.current], weight_)]
  ELSE p

\* the loop over the edges out of current, from the i-th on
RECURSIVE Relax(_, _, _, _)
Relax(p, edges, i, wraps) ==
  IF i > Len(edges) \/ p.trapped THEN p
  ELSE IF edges[i].dest_ \notin p.unvisited THEN Relax(p, edges, i + 1, wraps)
  ELSE Relax(Updated(p, edges[i].dest_, edges[i].weight_, wraps), edges, i + 1, wraps)

\* the loop over the unvisited vertices, in the order of the std::set: the
\* first vertex nearer than every one before it becomes current
RECURSIVE Nearest(_, _, _, _)

NearestFrom(vertex, rest, distances, shortest, current) ==
  IF distances[vertex] < shortest
    THEN Nearest(rest \ {vertex}, distances, distances[vertex], vertex)
    ELSE Nearest(rest \ {vertex}, distances, shortest, current)

Nearest(rest, distances, shortest, current) ==
  IF rest = {} THEN current
  ELSE NearestFrom(CHOOSE v \in rest : \A w \in rest : v <= w,
                   rest, distances, shortest, current)

\* unvisited.erase(current) and the choice of the next current
Erased(p) ==
  IF p.trapped THEN p
  ELSE [p EXCEPT !.unvisited = @ \ {p.current},
                 !.current = Nearest(p.unvisited \ {p.current}, p.distances, INT_MAX, p.current)]

\* one turn of the loop of dijkstra
Turn(p, g, wraps) == Erased(Relax(p, outputs(g, p.current), 1, wraps))

InitGraph ==
  /\ graph = Graph
  /\ path = <<>>
  /\ thrown = FALSE
  /\ pc = "graph"
  /\ input = <<>>
  /\ src = [family |-> "graph"]
  /\ lexer_ = Lexer(<<>>)
  /\ current_token_ = TokNone
  /\ returned = <<>>
  /\ x = Null
  /\ y = Null
  /\ eq = FALSE
  /\ codegen = <<>>
  /\ lowered = <<>>

Called(r) ==
  /\ graph' = r.graph
  /\ thrown' = r.threw

\* the caller calls Graph::add_vertex
AddVertex ==
  /\ pc = "graph"
  /\ \E vertex \in Vertices : Called(add_vertex(graph, vertex))
  /\ UNCHANGED <<input, src, lexer_, current_token_, pc, returned, x, y, eq, codegen, lowered, path>>

\* the caller calls Graph::add_edge
AddEdge ==
  /\ pc = "graph"
  /\ \E src_ \in Vertices, dest_ \in Vertices :
       Called(add_edge(graph, src_, dest_, edge_weight))
  /\ UNCHANGED <<input, src, lexer_, current_token_, pc, returned, x, y, eq, codegen, lowered, path>>

NextGraph == AddVertex \/ AddEdge

SpecGraph == InitGraph /\ [][NextGraph]_vars

\* the edges a caller joins two vertices by: none, or one of either direction
Links(a, b) ==
  {<<>>} \cup {<<Edge(a, b, w)>> : w \in Weights} \cup {<<Edge(b, a, w)>> : w \in Weights}

\* the calls of add_edge a graph of the three vertices is built by, pair after
\* pair in either order
EdgeLists ==
  {l.a \o l.b \o l.c : l \in [a : Links(1, 2), b : Links(1, 3), c : Links(2, 3)]}
    \cup {l.c \o l.b \o l.a : l \in [a : Links(1, 2), b : Links(1, 3), c : Links(2, 3)]}

\* the Graph after add_vertex for each vertex of the sequence
RECURSIVE WithVertices(_, _)
WithVertices(g, vertices) ==
  IF vertices = <<>> THEN g
  ELSE WithVertices(add_vertex(g, Head(vertices)).graph, Tail(vertices))

\* the Graph after add_edge for each edge of the sequence
RECURSIVE WithEdgeList(_, _)
WithEdgeList(g, edges) ==
  IF edges = <<>> THEN g
  ELSE WithEdgeList(add_edge(g, Head(edges).src_, Head(edges).dest_, Head(edges).weight_).graph,
                    Tail(edges))

\* a Graph built by add_edge alone, or by add_vertex for every vertex first
InitPath ==
  /\ \E edges \in EdgeLists, vertices \in {<<>>, <<3, 2, 1>>} :
       graph = WithEdgeList(WithVertices(Graph, vertices), edges)
  /\ path = <<>>
  /\ thrown = FALSE
  /\ pc = "graph"
  /\ input = <<>>
  /\ src = [family |-> "path"]
  /\ lexer_ = Lexer(<<>>)
  /\ current_token_ = TokNone
  /\ returned = <<>>
  /\ x = Null
  /\ y = Null
  /\ eq = FALSE
  /\ codegen = <<>>
  /\ lowered = <<>>

\* graph.accept(path) for a GraphShortestPath between two vertices of the
\* Graph: dijkstra arrives at its loop
Visit ==
  /\ pc = "graph"
  /\ \E start \in Vertices, end \in Vertices :
       /\ vertex_exists(graph, start)
       /\ vertex_exists(graph, end)
       /\ path' = Started(GraphShortestPath(start, end), graph)
  /\ pc' = "dijkstra"
  /\ UNCHANGED <<input, src, lexer_, current_token_, returned, x, y, eq, codegen, lowered,
                 graph, thrown>>

\* a turn of the loop of dijkstra has been taken
Turned(p) ==
  /\ path' = p
  /\ pc' = IF p.trapped THEN "trapped" ELSE "dijkstra"

\* while (current != end_) { ... }
DijkstraTurn ==
  /\ pc = "dijkstra"
  /\ path.current # path.end_
  /\ \E wraps \in BOOLEAN : Turned(Turn(path, graph, wraps))
  /\ UNCHANGED <<input, src, lexer_, current_token_, returned, x, y, eq, codegen, lowered,
                 graph, thrown>>

\* path_.distance = distances[end_], and visit returns
DijkstraReturn ==
  /\ pc = "dijkstra"
  /\ path.current = path.end_
  /\ path' = [path EXCEPT !.distance = path.distances[path.end_]]
  /\ pc' = "visited"
  /\ UNCHANGED <<input, src, lexer_, current_token_, returned, x, y, eq, codegen, lowered,
                 graph, thrown>>

NextPath == Visit \/ DijkstraTurn \/ DijkstraReturn

SpecPath == InitPath /\ [][NextPath]_vars

\* the vertices of the Graph
VerticesOf(g) == {g.vertices_[i] : i \in DOMAIN g.vertices_}

\* how often the edge list of vertex holds an edge that joins a and b
Stored(g, vertex, a, b) ==
  Cardinality({i \in DOMAIN g.edges_[vertex] :
                 {g.edges_[vertex][i].src_, g.edges_[vertex][i].dest_} = {a, b}})

Joined(g, a, b) == Stored(g, a, a, b) > 0 \/ Stored(g, b, a, b) > 0

\* C23: after any calls of add_vertex and add_edge the vertex list holds no
\* vertex twice and two vertices are joined by at most one edge, held once by
\* the edge list of each of its endpoints; add_vertex for a vertex of the
\* Graph, and add_edge for two vertices that are joined, in either direction,
\* throw and leave the Graph as it is.
C23_GraphShape ==
  pc = "graph"
    => /\ \A i, j \in DOMAIN graph.vertices_ : graph.vertices_[i] = graph.vertices_[j] => i = j
       /\ \A a, b \in VerticesOf(graph) :
            /\ Stored(graph, a, a, b) <= 1
            /\ Stored(graph, a, a, b) = Stored(graph, b, a, b)
       /\ \A vertex \in VerticesOf(graph) : add_vertex(graph, vertex) = Thrown(graph)
       /\ \A a, b \in VerticesOf(graph) :
            Joined(graph, a, b) => add_edge(graph, a, b, edge_weight) = Thrown(graph)

\* the edges of the Graph
EdgesOf(g) == UNION {{g.edges_[v][i] : i \in DOMAIN g.edges_[v]} : v \in DOMAIN g.edges_}

\* the directed paths from start to end that pass no vertex twice: every edge
\* is followed from its source to its destination
Routes(g, start, end) ==
  {r \in UNION {[1..n -> VerticesOf(g)] : n \in 1..Cardinality(VerticesOf(g))} :
     /\ r[1] = start
     /\ r[Len(r)] = end
     /\ \A i, j \in DOMAIN r : r[i] = r[j] => i = j
     /\ \A i \in 1..(Len(r) - 1) : \E e \in EdgesOf(g) : e.src_ = r[i] /\ e.dest_ = r[i + 1]}

\* the weight of the edge from a to b
WeightOf(g, a, b) == (CHOOSE e \in EdgesOf(g) : e.src_ = a /\ e.dest_ = b).weight_

\* the total weight of a route, as the number of its edges of weight INT_MAX
\* and the sum of the weights of the others (a total need not be an int)
RECURSIVE Total(_, _)

Plus(weight_, total) ==
  IF weight_ = INT_MAX THEN [total EXCEPT !.over = @ + 1]
  ELSE [total EXCEPT !.rest = @ + weight_]

Total(g, r) ==
  IF Len(r) <= 1 THEN [over |-> 0, rest |-> 0]
  ELSE Plus(WeightOf(g, r[1], r[2]), Total(g, Tail(r)))

AtMost(t, u) == t.over < u.over \/ (t.over = u.over /\ t.rest <= u.rest)

\* the int is the total
IsTotal(distance, t) ==
  \/ t.over = 0 /\ distance = t.rest
  \/ t.over = 1 /\ t.rest = 0 /\ distance = INT_MAX

\* the int is the least total weight of a route from start to end
IsShortest(g, start, end, distance) ==
  \E r \in Routes(g, start, end) :
    /\ IsTotal(distance, Total(g, r))
    /\ \A q \in Routes(g, start, end) : AtMost(Total(g, r), Total(g, q))

\* a turn of the loop that changes nothing: every turn after it is the same
Stuck == pc = "dijkstra" /\ path.current # path.end_ /\ Turn(path, graph, TRUE) = path

\* C24: on a Graph (its weights are not negative) where end can be reached
\* from start along directed edges, visit returns and path_length is then the
\* least total weight of a directed path from start to end.
C24_ShortestPath ==
  (pc \in {"dijkstra", "visited", "trapped"} /\ Routes(graph, path.start_, path.end_) # {})
    => /\ pc # "trapped"
       /\ ~Stuck
       /\ pc = "visited" => IsShortest(graph, path.start_, path.end_, path.distance)

\* C30: visit terminates on every Graph that holds start and end, whether end
\* can be reached from start or not: no turn of the loop of dijkstra leaves
\* the search as it was, with end not arrived at.
C30_VisitTerminates == ~Stuck
====
